---- MODULE Spec2Model ----
(***************************************************************************)
(* A model of the Monkey-language interpreter (lexer, Pratt parser,        *)
(* tree-walking evaluator, REPL) of Vahor/interpreter-in-rust.             *)
(*                                                                         *)
(* Source text is a TLA+ string; the Rust `char` '\0' that the lexer uses  *)
(* as its end-of-input sentinel is the empty string NUL.  Rust byte        *)
(* offsets are kept 0-based, as in the source.  A host panic (unwrap on    *)
(* Err, slice out of range, arithmetic overflow, division by zero) is an   *)
(* explicit outcome: the `panicked` field of the lexer, the "Panic"        *)
(* status of a result, and the `aborted` variable of the process.          *)
(*                                                                         *)
(* i64 is modelled as a signed integer of IntBits bits.                    *)
(***************************************************************************)
EXTENDS Integers, Sequences, FiniteSets, TLC

\* ------------------------------------------------------------------ bounds

\* Width of the model's i64 (two's complement).
IntBits == 12
\* Longest input drawn exhaustively from LexAlphabet for the lexer.
MaxInputLen == 3
\* Calls of next_token that return EOF before the lexer run stops.
MaxEofReads == 2
\* infix operators in a generated chain a o b o c ...
MaxChainOps == 2
\* lines the REPL reads in a run
MaxLines == 3
\* longest array handed to a single index operation
MaxArrayLen == 3
\* statements of a generated program
MaxStatements == 2
\* characters and escape pairs in the body of a generated string literal
MaxBodyItems == 2
\* arguments of a call
MaxArguments == 3
\* parameters of a generated function literal
MaxParameters == 2

RECURSIVE Pow2(_)
Pow2(n) == IF n = 0 THEN 1 ELSE 2 * Pow2(n - 1)

IntMax == Pow2(IntBits - 1) - 1
IntMin == 0 - Pow2(IntBits - 1)

VARIABLES
    pc,                   \* position of the run
    input,                \* the program text given to the run
    lexer,                \* the Lexer
    tokens,               \* tokens a lexer client has read so far
    parsed,               \* outcome of parse_program
    displayed,            \* the Display of the parsed Program
    reparsed,             \* outcome of parse_program on the displayed text
    environment,          \* the Environment handed to eval
    evaluated,            \* outcome of the last evaluation
    overflow_checks,      \* TRUE for a build with overflow checks
    aborted,              \* the host process panicked
    stop_at_first_error,  \* flags::STOP_AT_FIRST_ERROR
    history,              \* lines the REPL has read; lexer offsets at loop heads
    operation             \* operands of a single operation; the Parser of a loop

vars ==
    <<pc, input, lexer, tokens, parsed, displayed, reparsed, environment, evaluated,
      overflow_checks, aborted, stop_at_first_error, history, operation>>

\* `let name = value;` of the source: value is computed once and the rest
\* of the function reads it under that name
Bind(value, Rest(_)) == CHOOSE result \in {Rest(v) : v \in {value}} : TRUE

\* ------------------------------------------------------------- characters

NUL == ""

\* input.chars().nth(i), for 0 <= i < len
CharAt(s, i) == SubSeq(s, i + 1, i + 1)

\* &input[a..b]; the caller checks a <= b <= len (Rust panics otherwise)
Slice(s, a, b) == SubSeq(s, a + 1, b)

Whitespace == {" ", "\t", "\n", "\r"}

Digits == {"0", "1", "2", "3", "4", "5", "6", "7", "8", "9"}

IdentStart ==
    {"a", "b", "c", "d", "e", "f", "g", "h", "i", "j", "k", "l", "m",
     "n", "o", "p", "q", "r", "s", "t", "u", "v", "w", "x", "y", "z",
     "A", "B", "C", "D", "E", "F", "G", "H", "I", "J", "K", "L", "M",
     "N", "O", "P", "Q", "R", "S", "T", "U", "V", "W", "X", "Y", "Z", "_"}

IdentPart == IdentStart \cup Digits

DigitValue(c) ==
    CASE c = "0" -> 0 [] c = "1" -> 1 [] c = "2" -> 2 [] c = "3" -> 3
      [] c = "4" -> 4 [] c = "5" -> 5 [] c = "6" -> 6 [] c = "7" -> 7
      [] c = "8" -> 8 [] c = "9" -> 9

\* char::len_utf8 for the characters the model uses: ASCII, and one
\* character of two bytes
Utf8Len(c) == IF c = "é" THEN 2 ELSE 1

\* String::len, the number of bytes of the UTF-8 encoding
RECURSIVE ByteLen(_)
ByteLen(s) == IF s = "" THEN 0 ELSE Utf8Len(SubSeq(s, 1, 1)) + ByteLen(SubSeq(s, 2, Len(s)))

\* str::replace: every non-overlapping match of pat, scanning left to right
RECURSIVE Replace(_, _, _)
Replace(s, pat, rep) ==
    IF Len(s) < Len(pat) THEN s
    ELSE IF SubSeq(s, 1, Len(pat)) = pat
         THEN rep \o Replace(SubSeq(s, Len(pat) + 1, Len(s)), pat, rep)
         ELSE SubSeq(s, 1, 1) \o Replace(SubSeq(s, 2, Len(s)), pat, rep)

\* str::parse::<i64> of a run of digits: the value, or IntMax + 1 and more
\* when it does not fit (the accumulator stops growing once it is too big)
RECURSIVE ParseDigits(_, _)
ParseDigits(s, acc) ==
    IF s = "" THEN acc
    ELSE IF acc > IntMax THEN acc
    ELSE ParseDigits(SubSeq(s, 2, Len(s)), acc * 10 + DigitValue(SubSeq(s, 1, 1)))

\* ----------------------------------------------------------------- tokens

\* Token { kind, line, column }; the payload of IDENT / STRING / ILLEGAL is
\* lit, the payload of INT is val.
Token(kind, lit, val, line, column) ==
    [kind |-> kind, lit |-> lit, val |-> val, line |-> line, column |-> column]

\* Token::default()
TokenDefault == Token("EOF", "", 0, 0, 0)

Keyword(literal) ==
    CASE literal = "fn" -> "FUNCTION"
      [] literal = "let" -> "LET"
      [] literal = "true" -> "TRUE"
      [] literal = "false" -> "FALSE"
      [] literal = "if" -> "IF"
      [] literal = "else" -> "ELSE"
      [] literal = "return" -> "RETURN"
      [] OTHER -> "IDENT"

\* Precedence::value
LOWEST == 1
EQUALS == 2
LESSGREATER == 3
SUM == 4
PRODUCT == 5
PREFIX == 6
CALL == 7
INDEX == 8

\* The token kinds LBRACKET and RBRACKET are matched by the parser
\* (parser.rs:202, 229, 441, 476) but token.rs and lexer.rs under src/ are
\* the snapshot that precedes them; their lexing and their precedence
\* follow the specification (sections 3, 4.2 and 4.3).
BracketKind(c) == IF c = "[" THEN "LBRACKET" ELSE "RBRACKET"

BracketPrecedence == INDEX

\* a precedence table in which + and - bind tighter than * and /
TokenPrecedenceSumOverProduct(kind) ==
    CASE kind \in {"EQ", "NOT_EQ"} -> EQUALS
      [] kind \in {"LT", "GT", "LTE", "GTE"} -> LESSGREATER
      [] kind \in {"PLUS", "MINUS"} -> PRODUCT
      [] kind \in {"SLASH", "ASTERISK"} -> SUM
      [] kind = "LPAREN" -> CALL
      [] kind = "LBRACKET" -> BracketPrecedence
      [] OTHER -> LOWEST

\* impl Into<Precedence> for TokenType
TokenPrecedence(kind) ==
    CASE kind \in {"EQ", "NOT_EQ"} -> EQUALS
      [] kind \in {"LT", "GT", "LTE", "GTE"} -> LESSGREATER
      [] kind \in {"PLUS", "MINUS"} -> SUM
      [] kind \in {"SLASH", "ASTERISK"} -> PRODUCT
      [] kind = "LPAREN" -> CALL
      [] kind = "LBRACKET" -> BracketPrecedence
      [] OTHER -> LOWEST

\* impl Display for TokenType
TokenTypeToString(t) ==
    CASE t.kind = "ILLEGAL" -> "ILLEGAL: " \o t.lit
      [] t.kind = "IDENT" -> "IDENT: " \o t.lit
      [] t.kind = "INT" -> "INT: " \o ToString(t.val)
      [] t.kind = "STRING" -> "STRING: " \o t.lit
      [] t.kind = "ASSIGN" -> "="
      [] t.kind = "PLUS" -> "+"
      [] t.kind = "MINUS" -> "-"
      [] t.kind = "BANG" -> "!"
      [] t.kind = "ASTERISK" -> "*"
      [] t.kind = "SLASH" -> "/"
      [] t.kind = "LT" -> "<"
      [] t.kind = "GT" -> ">"
      [] t.kind = "LTE" -> "<="
      [] t.kind = "GTE" -> ">="
      [] t.kind = "EQ" -> "=="
      [] t.kind = "NOT_EQ" -> "!="
      [] t.kind = "COMMA" -> ","
      [] t.kind = "SEMICOLON" -> ";"
      [] t.kind = "LPAREN" -> "("
      [] t.kind = "RPAREN" -> ")"
      [] t.kind = "LBRACE" -> "{"
      [] t.kind = "RBRACE" -> "}"
      [] t.kind = "LBRACKET" -> "["
      [] t.kind = "RBRACKET" -> "]"
      [] OTHER -> t.kind

\* ------------------------------------------------------------------ lexer

\* Lexer::next_char
NextChar(l) ==
    [l EXCEPT !.ch = IF l.read_position >= Len(l.input)
                     THEN NUL
                     ELSE CharAt(l.input, l.read_position),
              !.position = l.read_position,
              !.read_position = l.read_position + 1,
              !.column = l.column + 1]

\* Lexer::peek_char
PeekChar(l) ==
    IF l.read_position >= Len(l.input) THEN NUL ELSE CharAt(l.input, l.read_position)

\* Lexer::new
LexerNew(text) ==
    Bind(NextChar([input |-> text, position |-> 0, read_position |-> 0, ch |-> NUL,
                   line |-> 1, column |-> 1, panicked |-> FALSE]),
         LAMBDA l1 : [l1 EXCEPT !.column = l1.column - 1])

\* Lexer::reset
LexerReset(l, text) ==
    Bind(NextChar([l EXCEPT !.input = text, !.position = 0,
                            !.read_position = 0, !.ch = NUL]),
         LAMBDA l1 : [l1 EXCEPT !.line = 1, !.column = 1])

\* Lexer::skip_whitespace
RECURSIVE SkipWhitespace(_)
SkipWhitespace(l) ==
    IF l.ch \in Whitespace
    THEN Bind(NextChar(l), LAMBDA l1 :
              SkipWhitespace(IF l.ch = "\n"
                             THEN [l1 EXCEPT !.line = l1.line + 1, !.column = 1]
                             ELSE l1))
    ELSE l

\* while matches!(self.ch, <class>) { self.next_char(); }
RECURSIVE ReadWhile(_, _)
ReadWhile(l, class) == IF l.ch \in class THEN ReadWhile(NextChar(l), class) ELSE l

\* the loop of the string branch (lexer.rs:184-190)
RECURSIVE ReadString(_, _)
ReadString(l, is_escaped) ==
    IF is_escaped \/ (PeekChar(l) # "\"" /\ PeekChar(l) # NUL)
    THEN Bind(NextChar(l), LAMBDA l1 : ReadString(l1, l1.ch = "\\"))
    ELSE l

\* the chain of replace calls of the string branch (lexer.rs:192-199)
Unescape(s) ==
    Replace(Replace(Replace(Replace(Replace(Replace(s,
        "\\n", "\n"), "\\t", "\t"), "\\r", "\r"), "\\\\", "\\"), "\\\"", "\""), "\\'", "'")

\* one- and two-character operators (lexer.rs:103-145): the token is built
\* from self.line and self.column after the optional next_char of the
\* two-character form, and the caller reads one more character.
OperatorToken(l) ==
    Bind(PeekChar(l) = "=", LAMBDA two :
    Bind(IF l.ch \in {"=", "!", "<", ">"} /\ two THEN NextChar(l) ELSE l, LAMBDA l1 :
    Bind(    CASE l.ch = "=" -> IF two THEN "EQ" ELSE "ASSIGN"
                  [] l.ch = "!" -> IF two THEN "NOT_EQ" ELSE "BANG"
                  [] l.ch = "<" -> IF two THEN "LTE" ELSE "LT"
                  [] l.ch = ">" -> IF two THEN "GTE" ELSE "GT"
                  [] l.ch = "+" -> "PLUS"
                  [] l.ch = "-" -> "MINUS"
                  [] l.ch = "*" -> "ASTERISK"
                  [] l.ch = "/" -> "SLASH"
                  [] l.ch = "," -> "COMMA"
                  [] l.ch = ";" -> "SEMICOLON"
                  [] l.ch = "(" -> "LPAREN"
                  [] l.ch = ")" -> "RPAREN"
                  [] l.ch = "{" -> "LBRACE"
                  [] l.ch = "}" -> "RBRACE"
                  [] l.ch = NUL -> "EOF"
                  [] l.ch \in {"[", "]"} -> BracketKind(l.ch),
         LAMBDA kind :
             [lexer |-> NextChar(l1), token |-> Token(kind, "", 0, l1.line, l1.column)])))

OperatorChars ==
    {"=", "+", "-", "!", "*", "/", "<", ">", ",", ";", "(", ")", "{", "}", NUL, "[", "]"}

\* Lexer::next_token.  A panicked lexer stays panicked; the token returned
\* with it is never looked at.
NextToken(l0) ==
    IF l0.panicked THEN [lexer |-> l0, token |-> TokenDefault]
    ELSE Bind(SkipWhitespace(l0), LAMBDA l :
    IF l.ch \in OperatorChars THEN OperatorToken(l)
    ELSE IF l.ch \in IdentStart THEN
        Bind(ReadWhile(l, IdentPart), LAMBDA l1 :
        Bind(Slice(l.input, l.position, l1.position), LAMBDA literal :
        Bind(Keyword(literal), LAMBDA kind :
            [lexer |-> l1,
             token |-> Token(kind, IF kind = "IDENT" THEN literal ELSE "", 0,
                             l1.line, l1.column)])))
    ELSE IF l.ch \in Digits THEN
        Bind(ReadWhile(l, Digits), LAMBDA l1 :
        Bind(ParseDigits(Slice(l.input, l.position, l1.position), 0), LAMBDA value :
            IF value > IntMax
            THEN [lexer |-> [l1 EXCEPT !.panicked = TRUE], token |-> TokenDefault]
            ELSE [lexer |-> l1, token |-> Token("INT", "", value, l1.line, l1.column)]))
    ELSE IF l.ch = "\"" THEN
        Bind(l.position + 1, LAMBDA start :
        Bind(NextChar(ReadString(l, FALSE)), LAMBDA l1 :
            IF l1.position > Len(l.input)
            THEN [lexer |-> [l1 EXCEPT !.panicked = TRUE], token |-> TokenDefault]
            ELSE IF l1.ch # "\""
            THEN [lexer |-> l1, token |-> Token("ILLEGAL", "\"", 0, l1.line, l1.column)]
            ELSE Bind(NextChar(l1), LAMBDA l2 :
                [lexer |-> l2,
                 token |-> Token("STRING", Unescape(Slice(l.input, start, l1.position)),
                                 0, l2.line, l2.column)])))
    ELSE [lexer |-> NextChar(l), token |-> Token("ILLEGAL", l.ch, 0, l.line, l.column)])

\* -------------------------------------------------------------------- AST

\* enum Expression (expression.rs:5-50); a field name holds one type
IntegerLiteral(i) == [kind |-> "IntegerLiteral", int |-> i]
BooleanLiteral(b) == [kind |-> "BooleanLiteral", bool |-> b]
StringLiteral(s) == [kind |-> "StringLiteral", str |-> s]
ArrayLiteral(es) == [kind |-> "ArrayLiteral", elements |-> es]
Identifier(n) == [kind |-> "Identifier", name |-> n]
PrefixExpression(op, r) == [kind |-> "PrefixExpression", operator |-> op, right |-> r]
InfixExpression(l, op, r) ==
    [kind |-> "InfixExpression", left |-> l, operator |-> op, right |-> r]
\* alternative: Option<BlockStatement> is <<>> (None) or <<block>> (Some)
IfExpression(c, cons, alt) ==
    [kind |-> "IfExpression", condition |-> c, consequence |-> cons, alternative |-> alt]
FunctionLiteral(ps, b) == [kind |-> "FunctionLiteral", parameters |-> ps, body |-> b]
CallExpression(f, as) == [kind |-> "CallExpression", function |-> f, arguments |-> as]
IndexExpression(l, i) == [kind |-> "IndexExpression", left |-> l, index |-> i]

\* enum Statement (statement.rs:5-19)
EmptyStatement == [kind |-> "EmptyStatement"]
LetStatement(id, v) == [kind |-> "LetStatement", identifier |-> id, value |-> v]
ReturnStatement(v) == [kind |-> "ReturnStatement", value |-> v]
ExpressionStatement(e) == [kind |-> "ExpressionStatement", expression |-> e]

\* impl Display for Expression, Statement and Program
RECURSIVE DisplayExpression(_), DisplayStatement(_), DisplayBlock(_), DisplayList(_)

\* elements.iter().map(to_string).collect().join(", ")
DisplayList(es) ==
    IF es = <<>> THEN ""
    ELSE IF Len(es) = 1 THEN DisplayExpression(es[1])
    ELSE DisplayExpression(es[1]) \o ", " \o DisplayList(Tail(es))

\* block.iter().for_each(|statement| result.push_str(&statement.to_string()))
DisplayBlock(b) ==
    IF b = <<>> THEN "" ELSE DisplayStatement(b[1]) \o DisplayBlock(Tail(b))

DisplayExpression(e) ==
    CASE e.kind = "StringLiteral" -> e.str
      [] e.kind = "IntegerLiteral" -> ToString(e.int)
      [] e.kind = "BooleanLiteral" -> IF e.bool THEN "true" ELSE "false"
      [] e.kind = "Identifier" -> e.name
      [] e.kind = "ArrayLiteral" -> "[" \o DisplayList(e.elements) \o "]"
      [] e.kind = "PrefixExpression" ->
            "(" \o e.operator \o DisplayExpression(e.right) \o ")"
      [] e.kind = "InfixExpression" ->
            "(" \o DisplayExpression(e.left) \o " " \o e.operator \o " "
                \o DisplayExpression(e.right) \o ")"
      [] e.kind = "IfExpression" ->
            "if " \o DisplayExpression(e.condition) \o " { "
                \o DisplayBlock(e.consequence) \o " }"
                \o (IF e.alternative = <<>> THEN ""
                    ELSE " else { " \o DisplayBlock(e.alternative[1]) \o " }")
      [] e.kind = "FunctionLiteral" ->
            "fn(" \o DisplayList(e.parameters) \o ") { " \o DisplayBlock(e.body) \o " }"
      [] e.kind = "CallExpression" ->
            DisplayExpression(e.function) \o "(" \o DisplayList(e.arguments) \o ")"
      [] e.kind = "IndexExpression" ->
            "(" \o DisplayExpression(e.left) \o "[" \o DisplayExpression(e.index) \o "])"

DisplayStatement(s) ==
    CASE s.kind = "EmptyStatement" -> ""
      [] s.kind = "LetStatement" ->
            "let " \o s.identifier \o " = " \o DisplayExpression(s.value) \o ";"
      [] s.kind = "ReturnStatement" -> "return " \o DisplayExpression(s.value) \o ";"
      [] s.kind = "ExpressionStatement" ->
            IF s.expression.kind = "IfExpression"
            THEN DisplayExpression(s.expression)
            ELSE DisplayExpression(s.expression) \o ";"

\* impl Display for Program: every statement followed by a newline
RECURSIVE DisplayProgram(_)
DisplayProgram(statements) ==
    IF statements = <<>> THEN ""
    ELSE DisplayStatement(statements[1]) \o "\n" \o DisplayProgram(Tail(statements))

\* ----------------------------------------------------------------- parser

\* Result<T, EvaluatorError> of a parser method, with the parser (it is
\* &mut self) as the method left it
POk(p, v) == [p |-> p, ok |-> TRUE, v |-> v]
PErr(p, e) == [p |-> p, ok |-> FALSE, err |-> e]

\* EvaluatorError::expected_token
UnexpectedToken(expected, tok) ==
    [kind |-> "UnexpectedToken", expected |-> expected,
     actual |-> TokenTypeToString(tok), line |-> tok.line, column |-> tok.column]

\* Parser::expected_error_peek and Parser::expected_error_curr
ExpectedErrorPeek(p, expected) == UnexpectedToken(expected, p.peek_token)
ExpectedErrorCurr(p, expected) == UnexpectedToken(expected, p.cur_token)

\* EvaluatorError::unfinished_string; the text of `actual` is not modelled
UnfinishedString(line, column) ==
    [kind |-> "UnfinishedString", line |-> line, column |-> column]

\* Lexer::next_token as Parser::next_token calls it (parser.rs:60), a
\* Result<Token, EvaluatorError>.  The lexer under src/ returns the Token
\* itself; the failing read is the one of the specification (4.2): a string
\* that reaches the end of input is an UnfinishedString error at the
\* opening quote.
LexerNextToken(l0) ==
    Bind(SkipWhitespace(l0), LAMBDA l :
    Bind(NextToken(l0), LAMBDA r :
        IF ~r.lexer.panicked /\ r.token.kind = "ILLEGAL" /\ r.token.lit = "\""
        THEN [lexer |-> r.lexer, ok |-> FALSE,
              err |-> UnfinishedString(l.line, l.column)]
        ELSE [lexer |-> r.lexer, ok |-> TRUE, token |-> r.token]))

\* Parser::next_token: cur_token is assigned before the read, peek_token
\* only when the read succeeds; failed holds the Err of the call
ParserNextToken(p) ==
    Bind(LexerNextToken(p.lexer), LAMBDA r :
        [lexer |-> r.lexer, cur_token |-> p.peek_token,
         peek_token |-> IF r.ok THEN r.token ELSE p.peek_token,
         failed |-> IF r.ok THEN <<>> ELSE <<r.err>>])

\* `self.next_token()?;` followed by the rest of the method
Try(p1, Rest(_)) ==
    CHOOSE result \in
        {IF p.failed # <<>> THEN PErr([p EXCEPT !.failed = <<>>], p.failed[1])
         ELSE Rest(p) : p \in {p1}} : TRUE

\* `self.next_token().expect(..)`: a failed read is a host panic
Expect(p1) ==
    IF p1.failed # <<>> THEN [p1 EXCEPT !.failed = <<>>, !.lexer.panicked = TRUE]
    ELSE p1

\* Parser::new
ParserNew(l) ==
    Expect(ParserNextToken(Expect(ParserNextToken(
        [lexer |-> l, cur_token |-> TokenDefault, peek_token |-> TokenDefault,
         failed |-> <<>>]))))

\* Parser::reset
ParserReset(p, text) ==
    Expect(ParserNextToken(Expect(ParserNextToken(
        [p EXCEPT !.lexer = LexerReset(p.lexer, text)]))))

\* Parser::peek_precedence
PeekPrecedence(p) == TokenPrecedence(p.peek_token.kind)

InfixKinds ==
    {"PLUS", "MINUS", "SLASH", "ASTERISK", "EQ", "NOT_EQ", "LT", "GT", "LTE", "GTE"}

RECURSIVE ParseStatement(_), ParseLetStatement(_), ParseReturnStatement(_),
          ParseExpressionStatement(_), ParseBlockStatement(_), ParseBlockLoop(_, _),
          ParseExpression(_, _), ParseExpressionLoop(_, _, _),
          ParsePrefixExpression(_), ParseGroupedExpression(_), ParseIfExpression(_),
          ParseInfixExpression(_, _), ParseCallExpression(_, _),
          ParseCallArguments(_), ParseFunctionLiteral(_),
          ParseArrayLiteral(_), ParseExpressionList(_, _), ParseListLoop(_, _),
          ParseIndexExpression(_, _)

\* Parser::parse_statement
ParseStatement(p) ==
    CASE p.cur_token.kind = "LET" -> ParseLetStatement(p)
      [] p.cur_token.kind = "RETURN" -> ParseReturnStatement(p)
      [] p.cur_token.kind = "SEMICOLON" -> POk(p, EmptyStatement)
      [] OTHER -> ParseExpressionStatement(p)

\* Parser::parse_let_statement
ParseLetStatement(p) ==
    IF p.peek_token.kind # "IDENT" THEN PErr(p, ExpectedErrorPeek(p, "IDENT"))
    ELSE Try(ParserNextToken(p), LAMBDA p1 :
         Bind(p1.cur_token.lit, LAMBDA identifier :
         IF p1.peek_token.kind # "ASSIGN" THEN PErr(p1, ExpectedErrorPeek(p1, "="))
         ELSE Try(ParserNextToken(p1), LAMBDA p2 :
              Try(ParserNextToken(p2), LAMBDA p3 :
              Bind(ParseExpression(p3, LOWEST), LAMBDA value :
              IF ~value.ok THEN value
              ELSE IF value.p.peek_token.kind # "SEMICOLON"
              THEN PErr(value.p, ExpectedErrorPeek(value.p, ";"))
              ELSE POk(value.p, LetStatement(identifier, value.v)))))))

\* Parser::parse_return_statement
ParseReturnStatement(p) ==
    Try(ParserNextToken(p), LAMBDA p1 :
    Bind(ParseExpression(p1, LOWEST), LAMBDA value :
        IF ~value.ok THEN value
        ELSE IF value.p.peek_token.kind # "SEMICOLON"
        THEN PErr(value.p, ExpectedErrorPeek(value.p, ";"))
        ELSE POk(value.p, ReturnStatement(value.v))))

\* Parser::parse_expression_statement
ParseExpressionStatement(p) ==
    Bind(ParseExpression(p, LOWEST), LAMBDA exp :
        IF ~exp.ok THEN exp
        ELSE IF exp.p.cur_token.kind = "SEMICOLON"
        THEN Try(ParserNextToken(exp.p), LAMBDA p1 :
                 POk(p1, ExpressionStatement(exp.v)))
        ELSE POk(exp.p, ExpressionStatement(exp.v)))

\* Parser::parse_block_statement
ParseBlockStatement(p) ==
    Try(ParserNextToken(p), LAMBDA p1 : ParseBlockLoop(p1, <<>>))

\* the while loop of parse_block_statement (parser.rs:177-185)
ParseBlockLoop(p, statements) ==
    IF p.cur_token.kind \in {"RBRACE", "EOF"} THEN POk(p, statements)
    ELSE Bind(ParseStatement(p), LAMBDA statement :
         IF ~statement.ok THEN statement
         ELSE Try(ParserNextToken(statement.p), LAMBDA p1 :
                  ParseBlockLoop(p1, IF statement.v.kind = "EmptyStatement"
                                     THEN statements
                                     ELSE Append(statements, statement.v))))

\* Parser::parse_expression
ParseExpression(p, precedence) ==
    Bind(p.cur_token.kind, LAMBDA k :
    Bind(CASE k = "INT" -> POk(p, IntegerLiteral(p.cur_token.val))
           [] k = "STRING" -> POk(p, StringLiteral(p.cur_token.lit))
           [] k = "IDENT" -> POk(p, Identifier(p.cur_token.lit))
           [] k \in {"BANG", "PLUS", "MINUS"} -> ParsePrefixExpression(p)
           [] k \in {"TRUE", "FALSE"} -> POk(p, BooleanLiteral(k = "TRUE"))
           [] k = "LPAREN" -> ParseGroupedExpression(p)
           [] k = "IF" -> ParseIfExpression(p)
           [] k = "FUNCTION" -> ParseFunctionLiteral(p)
           [] k = "LBRACKET" -> ParseArrayLiteral(p)
           [] OTHER -> PErr(p, ExpectedErrorCurr(p, "Expression")),
         LAMBDA left_expression :
    IF ~left_expression.ok THEN left_expression
    ELSE ParseExpressionLoop(left_expression.p, left_expression.v, precedence)))

\* the while loop of parse_expression (parser.rs:212-236)
ParseExpressionLoop(p, left_expression, precedence) ==
    IF p.peek_token.kind # "SEMICOLON" /\ precedence < PeekPrecedence(p)
    THEN IF p.peek_token.kind \in InfixKinds \cup {"LPAREN", "LBRACKET"}
         THEN Try(ParserNextToken(p), LAMBDA p1 :
              Bind(CASE p.peek_token.kind \in InfixKinds ->
                           ParseInfixExpression(p1, left_expression)
                     [] p.peek_token.kind = "LPAREN" ->
                           ParseCallExpression(p1, left_expression)
                     [] p.peek_token.kind = "LBRACKET" ->
                           ParseIndexExpression(p1, left_expression),
                   LAMBDA right_expression :
              IF ~right_expression.ok THEN right_expression
              ELSE ParseExpressionLoop(right_expression.p, right_expression.v,
                                       precedence)))
         ELSE POk(p, left_expression)
    ELSE POk(p, left_expression)

\* Parser::parse_prefix_expression
ParsePrefixExpression(p) ==
    Bind(TokenTypeToString(p.cur_token), LAMBDA operator :
    Try(ParserNextToken(p), LAMBDA p1 :
    Bind(ParseExpression(p1, PREFIX), LAMBDA right :
        IF ~right.ok THEN right
        ELSE POk(right.p, PrefixExpression(operator, right.v)))))

\* Parser::parse_grouped_expression
ParseGroupedExpression(p) ==
    Try(ParserNextToken(p), LAMBDA p1 :
    Bind(ParseExpression(p1, LOWEST), LAMBDA expression :
        IF ~expression.ok THEN expression
        ELSE IF expression.p.peek_token.kind # "RPAREN"
        THEN PErr(expression.p, ExpectedErrorPeek(expression.p, ")"))
        ELSE Try(ParserNextToken(expression.p), LAMBDA p2 :
                 POk(p2, expression.v))))

\* the else branch of parse_if_expression (parser.rs:315-326), entered
\* with the consequence parsed
ParseElse(p, condition, consequence) ==
    IF p.peek_token.kind # "ELSE"
    THEN POk(p, IfExpression(condition, consequence, <<>>))
    ELSE Try(ParserNextToken(p), LAMBDA p1 :
         IF p1.peek_token.kind # "LBRACE" THEN PErr(p1, ExpectedErrorPeek(p1, "{"))
         ELSE Try(ParserNextToken(p1), LAMBDA p2 :
              Bind(ParseBlockStatement(p2), LAMBDA block :
              IF ~block.ok THEN block
              ELSE POk(block.p, IfExpression(condition, consequence, <<block.v>>)))))

\* Parser::parse_if_expression
ParseIfExpression(p) ==
    IF p.peek_token.kind # "LPAREN" THEN PErr(p, ExpectedErrorPeek(p, "("))
    ELSE Try(ParserNextToken(p), LAMBDA p1 :
         Try(ParserNextToken(p1), LAMBDA p2 :
         Bind(ParseExpression(p2, LOWEST), LAMBDA condition :
         IF ~condition.ok THEN condition
         ELSE IF condition.p.peek_token.kind # "RPAREN"
         THEN PErr(condition.p, ExpectedErrorPeek(condition.p, ")"))
         ELSE Try(ParserNextToken(condition.p), LAMBDA p3 :
              IF p3.peek_token.kind # "LBRACE"
              THEN PErr(p3, ExpectedErrorPeek(p3, "{"))
              ELSE Try(ParserNextToken(p3), LAMBDA p4 :
                   Bind(ParseBlockStatement(p4), LAMBDA consequence :
                   IF ~consequence.ok THEN consequence
                   ELSE ParseElse(consequence.p, condition.v, consequence.v)))))))

\* Parser::parse_infix_expression: a right operand that fails to parse is
\* dropped and the left operand returned as the whole expression
ParseInfixExpression(p, left) ==
    Bind(TokenTypeToString(p.cur_token), LAMBDA operator :
    Bind(TokenPrecedence(p.cur_token.kind), LAMBDA precedence :
    Try(ParserNextToken(p), LAMBDA p1 :
    Bind(ParseExpression(p1, precedence), LAMBDA right :
        IF ~right.ok THEN POk(right.p, left)
        ELSE POk(right.p, InfixExpression(left, operator, right.v))))))

\* Parser::parse_call_expression
ParseCallExpression(p, function) ==
    Bind(ParseCallArguments(p), LAMBDA arguments :
        IF ~arguments.ok THEN arguments
        ELSE POk(arguments.p, CallExpression(function, arguments.v)))

\* Parser::parse_call_arguments
ParseCallArguments(p) ==
    IF p.peek_token.kind = "RPAREN"
    THEN Try(ParserNextToken(p), LAMBDA p1 : POk(p1, <<>>))
    ELSE ParseExpressionList(p, "RPAREN")

\* the while loop of parse_function_parameters (parser.rs:412-421)
RECURSIVE ParseParametersLoop(_, _)
ParseParametersLoop(p, identifiers) ==
    IF p.peek_token.kind = "COMMA"
    THEN Try(ParserNextToken(p), LAMBDA p1 :
         Try(ParserNextToken(p1), LAMBDA p2 :
         IF p2.cur_token.kind = "IDENT"
         THEN ParseParametersLoop(p2, Append(identifiers, Identifier(p2.cur_token.lit)))
         ELSE PErr(p2, ExpectedErrorCurr(p2, "identifier"))))
    ELSE IF p.peek_token.kind # "RPAREN" THEN PErr(p, ExpectedErrorPeek(p, ")"))
    ELSE Try(ParserNextToken(p), LAMBDA p1 : POk(p1, identifiers))

\* Parser::parse_function_parameters
ParseFunctionParameters(p) ==
    IF p.peek_token.kind = "RPAREN"
    THEN Try(ParserNextToken(p), LAMBDA p1 : POk(p1, <<>>))
    ELSE Try(ParserNextToken(p), LAMBDA p1 :
         IF p1.cur_token.kind = "IDENT"
         THEN ParseParametersLoop(p1, <<Identifier(p1.cur_token.lit)>>)
         ELSE PErr(p1, ExpectedErrorCurr(p1, "identifier")))

\* Parser::parse_function_literal
ParseFunctionLiteral(p) ==
    IF p.peek_token.kind # "LPAREN" THEN PErr(p, ExpectedErrorPeek(p, "("))
    ELSE Try(ParserNextToken(p), LAMBDA p1 :
         Bind(ParseFunctionParameters(p1), LAMBDA parameters :
         IF ~parameters.ok THEN parameters
         ELSE IF parameters.p.peek_token.kind # "LBRACE"
         THEN PErr(parameters.p, ExpectedErrorPeek(parameters.p, "{"))
         ELSE Try(ParserNextToken(parameters.p), LAMBDA p2 :
              Bind(ParseBlockStatement(p2), LAMBDA body :
              IF ~body.ok THEN body
              ELSE POk(body.p, FunctionLiteral(parameters.v, body.v))))))

\* Parser::parse_array_literal
ParseArrayLiteral(p) ==
    Bind(ParseExpressionList(p, "RBRACKET"), LAMBDA elements :
        IF ~elements.ok THEN elements ELSE POk(elements.p, ArrayLiteral(elements.v)))

\* Parser::parse_expression_list
ParseExpressionList(p, end) ==
    IF p.peek_token.kind = end
    THEN Try(ParserNextToken(p), LAMBDA p1 : POk(p1, <<>>))
    ELSE Try(ParserNextToken(p), LAMBDA p1 :
         Bind(ParseExpression(p1, LOWEST), LAMBDA first :
         IF ~first.ok THEN first
         ELSE Bind(ParseListLoop(first.p, <<first.v>>), LAMBDA rest :
              IF ~rest.ok THEN rest
              ELSE IF rest.p.peek_token.kind # end
              THEN PErr(rest.p, ExpectedErrorPeek(rest.p, "]"))
              ELSE Try(ParserNextToken(rest.p), LAMBDA p2 : POk(p2, rest.v)))))

\* the while loop of parse_expression_list (parser.rs:457-462)
ParseListLoop(p, elements) ==
    IF p.peek_token.kind = "COMMA"
    THEN Try(ParserNextToken(p), LAMBDA p1 :
         Try(ParserNextToken(p1), LAMBDA p2 :
         Bind(ParseExpression(p2, LOWEST), LAMBDA element :
         IF ~element.ok THEN element
         ELSE ParseListLoop(element.p, Append(elements, element.v)))))
    ELSE POk(p, elements)

\* Parser::parse_index_expression
ParseIndexExpression(p, left) ==
    Try(ParserNextToken(p), LAMBDA p1 :
    Bind(ParseExpression(p1, LOWEST), LAMBDA index :
        IF ~index.ok THEN index
        ELSE IF index.p.peek_token.kind # "RBRACKET"
        THEN PErr(index.p, ExpectedErrorPeek(index.p, "]"))
        ELSE Try(ParserNextToken(index.p), LAMBDA p2 :
                 POk(p2, IndexExpression(left, index.v)))))

\* the while loop of parse_program (parser.rs:69-89): the error of a
\* statement returns under stop_first, the error of the token read that
\* follows the statement is recorded and the loop goes on
RECURSIVE ParseProgramLoop(_, _, _, _)
ParseProgramLoop(p, statements, errors, stop_first) ==
    IF p.cur_token.kind = "EOF"
    THEN [p |-> p, statements |-> statements, errors |-> errors]
    ELSE Bind(ParseStatement(p), LAMBDA stmt :
         IF ~stmt.ok /\ stop_first
         THEN [p |-> stmt.p, statements |-> statements,
               errors |-> Append(errors, stmt.err)]
         ELSE Bind(ParserNextToken(stmt.p), LAMBDA next :
              ParseProgramLoop(
                  [next EXCEPT !.failed = <<>>],
                  IF stmt.ok /\ stmt.v.kind # "EmptyStatement"
                  THEN Append(statements, stmt.v) ELSE statements,
                  (IF stmt.ok THEN errors ELSE Append(errors, stmt.err)) \o next.failed,
                  stop_first)))

\* Parser::parse_program: Ok(Program), Err(errors), or the host panic of a
\* token read
ParseProgram(p, stop_first) ==
    Bind(ParseProgramLoop(p, <<>>, <<>>, stop_first), LAMBDA r :
        IF r.p.lexer.panicked THEN [status |-> "Panic", p |-> r.p]
        ELSE IF Len(r.errors) > 0
        THEN [status |-> "Err", p |-> r.p, errors |-> r.errors]
        ELSE [status |-> "Ok", p |-> r.p, statements |-> r.statements])

\* ------------------------------------------------------ objects and errors

\* enum ObjectType (object.rs:13-34); a field name holds one type
Null == [kind |-> "Null"]
Integer(i) == [kind |-> "Integer", int |-> i]
Boolean(b) == [kind |-> "Boolean", bool |-> b]
String(s) == [kind |-> "String", str |-> s]
Return(obj) == [kind |-> "Return", obj |-> obj]
Function(parameters, body, env) ==
    [kind |-> "Function", parameters |-> parameters, body |-> body, environment |-> env]
Builtin(name) == [kind |-> "Builtin", name |-> name]
Array(elements) == [kind |-> "Array", elements |-> elements]

\* the constructors of EvaluatorError used by the evaluator
OperatorNotSupported(actual) == [kind |-> "OperatorNotSupported", actual |-> actual]
TypeMismatch(expected, operator, actual) ==
    [kind |-> "TypeMismatch", expected |-> expected, operator |-> operator,
     actual |-> actual]
WrongNumberOfArguments(expected, actual) ==
    [kind |-> "WrongNumberOfArguments", function_name |-> "unknown",
     expected_count |-> expected, actual_count |-> actual]
MissingArgument(index) == [kind |-> "MissingArgument", index_value |-> index]
ArgumentTypeNotSupported(function, actual) ==
    [kind |-> "ArgumentTypeNotSupported", function_name |-> function, actual |-> actual]
BuiltInFunction(actual) == [kind |-> "BuiltInFunction", actual |-> actual]
UnknownIdentifier(identifier) ==
    [kind |-> "UnknownIdentifier", identifier |-> identifier]
IndexOutOfBounds(index, size) ==
    [kind |-> "IndexOutOfBounds", index_value |-> index, size |-> size]

\* impl Object for ObjectType: inspect, which is also its Display
RECURSIVE Inspect(_), InspectList(_), InspectBody(_)

\* arr.iter().map(|o| o.inspect()).collect().join(", ")
InspectList(arr) ==
    IF arr = <<>> THEN ""
    ELSE IF Len(arr) = 1 THEN Inspect(arr[1])
    ELSE Inspect(arr[1]) \o ", " \o InspectList(Tail(arr))

\* for stmt in body { out.push_str(&format!("{}\n\t", stmt)) }
InspectBody(body) ==
    IF body = <<>> THEN ""
    ELSE DisplayStatement(body[1]) \o "\n\t" \o InspectBody(Tail(body))

Inspect(o) ==
    CASE o.kind = "Null" -> "null"
      [] o.kind = "Integer" -> ToString(o.int)
      [] o.kind = "Boolean" -> IF o.bool THEN "true" ELSE "false"
      [] o.kind = "String" -> o.str
      [] o.kind = "Return" -> Inspect(o.obj)
      [] o.kind = "Function" ->
            "fn(" \o DisplayList(o.parameters) \o ") {\n" \o InspectBody(o.body) \o "}"
      [] o.kind = "Builtin" -> "builtin function"
      [] o.kind = "Array" -> "[" \o InspectList(o.elements) \o "]"

\* ------------------------------------------------------------ environment

\* Environment::new; store is a function of names, outer an Option
EnvNew == [store |-> <<>>, outer |-> <<>>]

\* Environment::new_enclosed
EnvNewEnclosed(outer) == [store |-> <<>>, outer |-> <<outer>>]

\* Environment::get: Some(value) is <<value>>, None is <<>>
RECURSIVE EnvGet(_, _)
EnvGet(env, name) ==
    IF name \in DOMAIN env.store THEN <<env.store[name]>>
    ELSE IF env.outer # <<>> THEN EnvGet(env.outer[1], name)
    ELSE <<>>

\* a set that writes to the outermost frame
RECURSIVE EnvSetOutermost(_, _, _)
EnvSetOutermost(env, name, value) ==
    IF env.outer = <<>> THEN [env EXCEPT !.store = (name :> value) @@ env.store]
    ELSE [env EXCEPT !.outer = <<EnvSetOutermost(env.outer[1], name, value)>>]

\* a set that stores nothing
EnvSetDropped(env, name, value) == env

\* Environment::set
EnvSet(env, name, value) == [env EXCEPT !.store = (name :> value) @@ env.store]

\* Environment::merge: the keys of other's store only, never its outer
EnvMerge(env, other) == [env EXCEPT !.store = other.store @@ env.store]

\* --------------------------------------------------------------- builtins

\* Result<ObjectType, EvaluatorError> of a function that takes no
\* environment; Panic is the abort of the host process
Ok(v) == [status |-> "Ok", val |-> v]
Err(e) == [status |-> "Err", err |-> e]
Panic == [status |-> "Panic"]

\* static BUILTINS
BUILTINS == {"len", "first", "last", "push", "pop", "rest", "print", "println"}

\* a registry without built-ins
GetBuiltinNone(name) == <<>>

\* get_builtin: Some(builtin) is <<builtin>>
GetBuiltin(name) == IF name \in BUILTINS THEN <<Builtin(name)>> ELSE <<>>

\* builtins::len
BuiltinLen(args) ==
    IF Len(args) # 1 THEN Err(WrongNumberOfArguments(1, Len(args)))
    ELSE IF args[1].kind = "String" THEN Ok(Integer(ByteLen(args[1].str)))
    ELSE Err(ArgumentTypeNotSupported("len", Inspect(args[1])))

\* builtins::first
BuiltinFirst(args) ==
    IF Len(args) # 1 THEN Err(WrongNumberOfArguments(1, Len(args)))
    ELSE IF args[1].kind = "Array"
    THEN IF Len(args[1].elements) > 0 THEN Ok(args[1].elements[1]) ELSE Ok(Null)
    ELSE Err(ArgumentTypeNotSupported("first", Inspect(args[1])))

\* builtins::last
BuiltinLast(args) ==
    IF Len(args) # 1 THEN Err(WrongNumberOfArguments(1, Len(args)))
    ELSE IF args[1].kind = "Array"
    THEN IF Len(args[1].elements) > 0
         THEN Ok(args[1].elements[Len(args[1].elements)]) ELSE Ok(Null)
    ELSE Err(ArgumentTypeNotSupported("last", Inspect(args[1])))

\* builtins::rest
BuiltinRest(args) ==
    IF Len(args) # 1 THEN Err(WrongNumberOfArguments(1, Len(args)))
    ELSE IF args[1].kind = "Array"
    THEN IF Len(args[1].elements) > 0 THEN Ok(Array(Tail(args[1].elements))) ELSE Ok(Null)
    ELSE Err(ArgumentTypeNotSupported("rest", Inspect(args[1])))

\* builtins::push and push_array: args[0] and args[1] are indexed without
\* a length check other than the one for a single argument
BuiltinPush(args) ==
    IF Len(args) = 1 THEN Err(MissingArgument(2))
    ELSE IF Len(args) = 0 THEN Panic
    ELSE IF args[1].kind = "Array" THEN Ok(Array(Append(args[1].elements, args[2])))
    ELSE Err(ArgumentTypeNotSupported("push", Inspect(args[1])))

\* builtins::pop and pop_array
BuiltinPop(args) ==
    IF Len(args) # 1 THEN Err(WrongNumberOfArguments(1, Len(args)))
    ELSE IF args[1].kind = "Array"
    THEN IF Len(args[1].elements) > 0
         THEN Ok(args[1].elements[Len(args[1].elements)]) ELSE Ok(Null)
    ELSE Err(ArgumentTypeNotSupported("pop", Inspect(args[1])))

\* builtins::print and builtins::println: the text goes to stdout
BuiltinPrint(args) == Ok(Null)

\* the call through the fn pointer of ObjectType::Builtin
CallBuiltin(name, args) ==
    CASE name = "len" -> BuiltinLen(args)
      [] name = "first" -> BuiltinFirst(args)
      [] name = "last" -> BuiltinLast(args)
      [] name = "rest" -> BuiltinRest(args)
      [] name = "push" -> BuiltinPush(args)
      [] name = "pop" -> BuiltinPop(args)
      [] OTHER -> BuiltinPrint(args)

\* -------------------------------------------------------------- evaluator

\* a Result together with the environment (&mut Environment) as the
\* function left it
ROk(env, v) == [env |-> env, status |-> "Ok", val |-> v]
RErr(env, e) == [env |-> env, status |-> "Err", err |-> e]
RPanic(env) == [env |-> env, status |-> "Panic"]

\* the Result of an environment-free function, returned by a caller that
\* holds the environment
Attach(env, r) ==
    CASE r.status = "Ok" -> ROk(env, r.val)
      [] r.status = "Err" -> RErr(env, r.err)
      [] OTHER -> RPanic(env)

\* i64 wrapping arithmetic of a build without overflow checks
WrapInt(n) == ((n - IntMin) % Pow2(IntBits)) + IntMin

\* an i64 + - * or negation whose exact result is n: a build with overflow
\* checks panics outside the range, a build without them wraps
Arith(n) ==
    IF n >= IntMin /\ n <= IntMax THEN Ok(Integer(n))
    ELSE IF overflow_checks THEN Panic
    ELSE Ok(Integer(WrapInt(n)))

Abs(n) == IF n < 0 THEN -n ELSE n

\* i64 division: truncates toward zero, and panics in every build when the
\* divisor is zero or the quotient overflows
Divide(left, right) ==
    IF right = 0 \/ (left = IntMin /\ right = -1) THEN Panic
    ELSE LET q == Abs(left) \div Abs(right)
         IN Ok(Integer(IF (left < 0) # (right < 0) THEN -q ELSE q))

\* is_truthy
IsTruthy(obj) ==
    CASE obj.kind = "Boolean" -> obj.bool
      [] obj.kind = "Null" -> FALSE
      [] OTHER -> TRUE

\* eval_integer_infix_expression
EvalIntegerInfixExpression(operator, left, right) ==
    CASE operator = "+" -> Arith(left + right)
      [] operator = "-" -> Arith(left - right)
      [] operator = "*" -> Arith(left * right)
      [] operator = "/" -> Divide(left, right)
      [] operator = "<" -> Ok(Boolean(left < right))
      [] operator = "<=" -> Ok(Boolean(left <= right))
      [] operator = ">" -> Ok(Boolean(left > right))
      [] operator = ">=" -> Ok(Boolean(left >= right))
      [] operator = "==" -> Ok(Boolean(left = right))
      [] operator = "!=" -> Ok(Boolean(left # right))
      [] OTHER -> Err(OperatorNotSupported(operator))

\* eval_boolean_infix_expression
EvalBooleanInfixExpression(operator, left, right) ==
    CASE operator = "==" -> Ok(Boolean(left = right))
      [] operator = "!=" -> Ok(Boolean(left # right))
      [] OTHER -> Err(TypeMismatch(Inspect(Boolean(left)), operator,
                                   Inspect(Boolean(right))))

\* eval_string_infix_expression with the operands of format! exchanged
EvalStringInfixExpressionSwapped(operator, left, right) ==
    CASE operator = "+" -> Ok(String(right \o left))
      [] OTHER -> Err(TypeMismatch(left, operator, right))

\* eval_string_infix_expression
EvalStringInfixExpression(operator, left, right) ==
    CASE operator = "+" -> Ok(String(left \o right))
      [] OTHER -> Err(TypeMismatch(left, operator, right))

\* eval_infix_expression
EvalInfixExpression(operator, left, right) ==
    CASE left.kind = "Integer" /\ right.kind = "Integer" ->
            EvalIntegerInfixExpression(operator, left.int, right.int)
      [] left.kind = "Boolean" /\ right.kind = "Boolean" ->
            EvalBooleanInfixExpression(operator, left.bool, right.bool)
      [] left.kind = "String" /\ right.kind = "String" ->
            EvalStringInfixExpression(operator, left.str, right.str)
      [] OTHER -> Err(TypeMismatch(Inspect(left), operator, Inspect(right)))

\* eval_bang_operator_expression
EvalBangOperatorExpression(right) ==
    CASE right.kind = "Boolean" -> Ok(Boolean(~right.bool))
      [] right.kind = "Integer" -> Ok(Boolean(right.int = 0))
      [] right.kind = "Null" -> Ok(Boolean(TRUE))
      [] OTHER -> Err(OperatorNotSupported(Inspect(right)))

\* eval_minus_prefix_operator_expression
EvalMinusPrefixOperatorExpression(right) ==
    CASE right.kind = "Integer" -> Arith(-right.int)
      [] OTHER -> Err(OperatorNotSupported(Inspect(right)))

\* eval_prefix_expression
EvalPrefixExpression(operator, right) ==
    CASE operator = "!" -> EvalBangOperatorExpression(right)
      [] operator = "-" -> EvalMinusPrefixOperatorExpression(right)
      [] OTHER -> Err(OperatorNotSupported(operator))

\* eval_index_expression: a String is bounded by value.len(), its length in
\* bytes, and read with value.chars().nth(index).unwrap()
EvalIndexExpression(left, index) ==
    CASE left.kind = "Array" /\ index.kind = "Integer" ->
            IF index.int < 0 \/ index.int >= Len(left.elements)
            THEN Err(IndexOutOfBounds(index.int, Len(left.elements)))
            ELSE Ok(left.elements[index.int + 1])
      [] left.kind = "String" /\ index.kind = "Integer" ->
            IF index.int < 0 \/ index.int >= ByteLen(left.str)
            THEN Err(IndexOutOfBounds(index.int, ByteLen(left.str)))
            ELSE IF index.int >= Len(left.str) THEN Panic
            ELSE Ok(String(CharAt(left.str, index.int)))
      [] OTHER -> Err(OperatorNotSupported(Inspect(left)))

\* a block loop that never takes the break
IsReturnIgnored(result) == FALSE

\* if let ObjectType::Return(_) = result (evaluator.rs:120)
IsReturn(result) == result.kind = "Return"

\* if let ObjectType::Return(obj) = result { return Ok(*obj) } (evaluator.rs:13-17)
Unwrap(result) == IF result.kind = "Return" THEN result.obj ELSE result

\* a loop that binds every parameter to the first argument
SetParametersToFirst(env, parameters, args) ==
    IF parameters = <<>> \/ args = <<>> THEN env
    ELSE [env EXCEPT !.store =
              [name \in {DisplayExpression(parameters[i]) : i \in DOMAIN parameters}
                  |-> args[1]] @@ env.store]

\* the for loop of apply_function (evaluator.rs:231-233)
RECURSIVE SetParameters(_, _, _)
SetParameters(env, parameters, args) ==
    IF parameters = <<>> \/ args = <<>> THEN env
    ELSE SetParameters(EnvSet(env, DisplayExpression(parameters[1]), args[1]),
                       Tail(parameters), Tail(args))

\* the environment apply_function builds for the body (evaluator.rs:224-225)
CallEnvironment(outer_environment, function) ==
    EnvMerge(EnvNewEnclosed(outer_environment), function.environment)

RECURSIVE EvalNode(_, _), EvalExpression(_, _), EvalExpressions(_, _, _),
          EvalBlockStatement(_, _), EvalBlockLoop(_, _, _),
          EvalIfExpression(_, _, _, _), ApplyFunction(_, _, _)

\* apply_function: the caller's environment is borrowed immutably, and the
\* result of the body is returned as the block produced it
ApplyFunction(outer_environment, function, args) ==
    CASE function.kind = "Function" ->
            IF Len(function.parameters) # Len(args)
            THEN Err(WrongNumberOfArguments(Len(function.parameters), Len(args)))
            ELSE Bind(EvalBlockStatement(
                          SetParameters(CallEnvironment(outer_environment, function),
                                        function.parameters, args),
                          function.body),
                      LAMBDA r :
                          CASE r.status = "Ok" -> Ok(r.val)
                            [] r.status = "Err" -> Err(r.err)
                            [] OTHER -> Panic)
      [] function.kind = "Builtin" -> CallBuiltin(function.name, args)
      [] OTHER -> Err(OperatorNotSupported(Inspect(function)))

\* eval_if_expression
EvalIfExpression(env, condition, consequence, alternative) ==
    Bind(EvalExpression(env, condition), LAMBDA c :
        IF c.status # "Ok" THEN c
        ELSE IF IsTruthy(c.val) THEN EvalBlockStatement(c.env, consequence)
        ELSE IF alternative # <<>> THEN EvalBlockStatement(c.env, alternative[1])
        ELSE ROk(c.env, Null))

\* loops that evaluate the last expression first
RECURSIVE EvalExpressionsLastFirst(_, _, _)
EvalExpressionsLastFirst(env, exprs, result) ==
    IF exprs = <<>> THEN ROk(env, result)
    ELSE Bind(EvalExpression(env, exprs[Len(exprs)]), LAMBDA e :
         IF e.status # "Ok" THEN e
         ELSE EvalExpressionsLastFirst(e.env, SubSeq(exprs, 1, Len(exprs) - 1),
                                       <<e.val>> \o result))

\* the for loops of eval_expression over arguments and elements
\* (evaluator.rs:81-83, 92-94); val is the vector built so far
EvalExpressions(env, exprs, result) ==
    IF exprs = <<>> THEN ROk(env, result)
    ELSE Bind(EvalExpression(env, exprs[1]), LAMBDA e :
         IF e.status # "Ok" THEN e
         ELSE EvalExpressions(e.env, Tail(exprs), Append(result, e.val)))

\* eval_expression
EvalExpression(env, expr) ==
    CASE expr.kind = "IntegerLiteral" -> ROk(env, Integer(expr.int))
      [] expr.kind = "BooleanLiteral" -> ROk(env, Boolean(expr.bool))
      [] expr.kind = "StringLiteral" -> ROk(env, String(expr.str))
      [] expr.kind = "PrefixExpression" ->
            Bind(EvalExpression(env, expr.right), LAMBDA right :
                IF right.status # "Ok" THEN right
                ELSE Attach(right.env, EvalPrefixExpression(expr.operator, right.val)))
      [] expr.kind = "InfixExpression" ->
            Bind(EvalExpression(env, expr.left), LAMBDA left :
                IF left.status # "Ok" THEN left
                ELSE Bind(EvalExpression(left.env, expr.right), LAMBDA right :
                     IF right.status # "Ok" THEN right
                     ELSE Attach(right.env,
                                 EvalInfixExpression(expr.operator, left.val, right.val))))
      [] expr.kind = "IfExpression" ->
            EvalIfExpression(env, expr.condition, expr.consequence, expr.alternative)
      [] expr.kind = "Identifier" ->
            IF GetBuiltin(expr.name) # <<>> THEN ROk(env, GetBuiltin(expr.name)[1])
            ELSE IF EnvGet(env, expr.name) # <<>> THEN ROk(env, EnvGet(env, expr.name)[1])
            ELSE RErr(env, UnknownIdentifier(expr.name))
      [] expr.kind = "FunctionLiteral" ->
            ROk(env, Function(expr.parameters, expr.body, env))
      [] expr.kind = "CallExpression" ->
            Bind(EvalExpression(env, expr.function), LAMBDA function :
                IF function.status # "Ok" THEN function
                ELSE Bind(EvalExpressions(function.env, expr.arguments, <<>>),
                          LAMBDA arguments :
                     IF arguments.status # "Ok" THEN arguments
                     ELSE Attach(arguments.env,
                                 ApplyFunction(arguments.env, function.val, arguments.val))))
      [] expr.kind = "ArrayLiteral" ->
            Bind(EvalExpressions(env, expr.elements, <<>>), LAMBDA elements :
                IF elements.status # "Ok" THEN elements
                ELSE ROk(elements.env, Array(elements.val)))
      [] expr.kind = "IndexExpression" ->
            Bind(EvalExpression(env, expr.left), LAMBDA left :
                IF left.status # "Ok" THEN left
                ELSE Bind(EvalExpression(left.env, expr.index), LAMBDA index :
                     IF index.status # "Ok" THEN index
                     ELSE Attach(index.env, EvalIndexExpression(left.val, index.val))))
      [] OTHER -> RErr(env, OperatorNotSupported(DisplayExpression(expr)))

\* eval_node
EvalNode(env, node) ==
    CASE node.kind = "ExpressionStatement" -> EvalExpression(env, node.expression)
      [] node.kind = "ReturnStatement" ->
            Bind(EvalExpression(env, node.value), LAMBDA evaluated_value :
                IF evaluated_value.status # "Ok" THEN evaluated_value
                ELSE ROk(evaluated_value.env, Return(evaluated_value.val)))
      [] node.kind = "LetStatement" ->
            IF GetBuiltin(node.identifier) # <<>>
            THEN RErr(env, BuiltInFunction(node.identifier))
            ELSE Bind(EvalExpression(env, node.value), LAMBDA evaluated_value :
                 IF evaluated_value.status # "Ok" THEN evaluated_value
                 ELSE ROk(EnvSet(evaluated_value.env, node.identifier,
                                 evaluated_value.val), Null))
      [] OTHER -> RErr(env, OperatorNotSupported(DisplayStatement(node)))

\* eval_block_statement
EvalBlockStatement(env, statements) == EvalBlockLoop(env, statements, Null)

\* the for loop of eval_block_statement (evaluator.rs:112-123)
EvalBlockLoop(env, statements, result) ==
    IF statements = <<>> THEN ROk(env, result)
    ELSE Bind(EvalNode(env, statements[1]), LAMBDA statement_result :
         IF statement_result.status # "Ok" THEN statement_result
         ELSE IF IsReturn(statement_result.val) THEN statement_result
         ELSE EvalBlockLoop(statement_result.env, Tail(statements),
                            statement_result.val))

\* eval
Eval(statements, env) ==
    Bind(EvalBlockStatement(env, statements), LAMBDA result :
        IF result.status # "Ok" THEN result
        ELSE ROk(result.env, Unwrap(result.val)))

\* ------------------------------------------------- specification: the lexer

\* every string of exactly n characters of the alphabet
RECURSIVE StringsOfLen(_, _)
StringsOfLen(alphabet, n) ==
    IF n = 0 THEN {""}
    ELSE {s \o c : s \in StringsOfLen(alphabet, n - 1), c \in alphabet}

StringsUpTo(alphabet, n) == UNION {StringsOfLen(alphabet, k) : k \in 0..n}

LexAlphabet == {"\"", "\\", "n", "=", "7", " ", "\n"}

LexCorpus ==
    {"=+-*/!<>(){},;==!=<=>=",
     "let five = 5;",
     "\"hello \\\"world\\\"\"",
     "\"hello \\n world\"",
     "5 + 6 * 7 - 8 / 9;",
     "99999999"}

\* what the body of a string literal is made of, as <<text, character>>: an
\* ordinary character, or one of the six escape pairs
BodyItems ==
    {<<"a", "a">>, <<"n", "n">>,
     <<"\\n", "\n">>, <<"\\t", "\t">>, <<"\\r", "\r">>,
     <<"\\\\", "\\">>, <<"\\\"", "\"">>, <<"\\'", "'">>}

\* bodies of up to n items
RECURSIVE Bodies(_)
Bodies(n) ==
    IF n = 0 THEN {<<>>}
    ELSE Bodies(n - 1) \cup {Append(b, i) : b \in Bodies(n - 1), i \in BodyItems}

\* the text of a body (k = 1) and the characters it stands for (k = 2)
RECURSIVE BodyText(_, _)
BodyText(body, k) ==
    IF body = <<>> THEN "" ELSE body[1][k] \o BodyText(Tail(body), k)

\* the terminated string literal with a body
StringLiteralText(body) == "\"" \o BodyText(body, 1) \o "\""

StringInputs == {StringLiteralText(b) : b \in Bodies(MaxBodyItems)}

\* the string literal with a body that the input ends in
UnterminatedText(body) == "\"" \o BodyText(body, 1)

UnterminatedInputs == {UnterminatedText(b) : b \in Bodies(MaxBodyItems)}

\* the values written as integer literals: small ones, and the ones around
\* the largest i64
LiteralValues == (0..12) \cup ((IntMax - 3)..(IntMax + 3)) \cup {10 * IntMax}

IntegerInputs == {ToString(n) : n \in LiteralValues}

LexInputs ==
    StringsUpTo(LexAlphabet, MaxInputLen) \cup LexCorpus \cup StringInputs
        \cup UnterminatedInputs \cup IntegerInputs

EofReads == Cardinality({i \in 1..Len(tokens) : tokens[i].kind = "EOF"})

\* values of the variables a specification does not use
NoParse == [status |-> "None"]
NoOperation == [operator |-> "", left |-> 0, right |-> 0]

InitLex ==
    /\ pc = "lex"
    /\ input \in LexInputs
    /\ lexer = LexerNew(input)
    /\ tokens = <<>>
    /\ parsed = NoParse
    /\ displayed = ""
    /\ reparsed = NoParse
    /\ environment = EnvNew
    /\ evaluated = NoParse
    /\ overflow_checks = TRUE
    /\ aborted = FALSE
    /\ stop_at_first_error = FALSE
    /\ history = <<>>
    /\ operation = NoOperation

\* one call of Lexer::next_token by the lexer's client
LexNextToken ==
    /\ pc = "lex"
    /\ ~aborted
    /\ EofReads < MaxEofReads
    /\ \E r \in {NextToken(lexer)} :
          /\ lexer' = r.lexer
          /\ aborted' = r.lexer.panicked
          /\ tokens' = IF r.lexer.panicked THEN tokens ELSE Append(tokens, r.token)
    /\ UNCHANGED <<pc, input, parsed, displayed, reparsed, environment, evaluated,
                   overflow_checks, stop_at_first_error, history, operation>>

NextLex == LexNextToken

SpecLex == InitLex /\ [][NextLex]_vars

\* ------------------------------------------------ specification: the parser

\* Lexer::new, Parser::new and parse_program on a text (interpreter.rs:9-13)
ParseText(text, stop_first) == ParseProgram(ParserNew(LexerNew(text)), stop_first)

\* the Result<Program, Vec<EvaluatorError>> of parse_program
Outcome(r) ==
    CASE r.status = "Ok" -> [status |-> "Ok", statements |-> r.statements]
      [] r.status = "Err" -> [status |-> "Err", errors |-> r.errors]
      [] OTHER -> [status |-> "Panic"]

\* the ten infix operators (parser.rs:215)
InfixOperators == {"+", "-", "*", "/", "==", "!=", "<", ">", "<=", ">="}

OperandNames == <<"a", "b", "c", "d", "e", "f">>

\* a b c ... joined by n infix operators, without parentheses
RECURSIVE Chains(_)
Chains(n) ==
    IF n = 0 THEN {OperandNames[1]}
    ELSE {s \o " " \o o \o " " \o OperandNames[n + 1] :
              s \in Chains(n - 1), o \in InfixOperators}

ChainInputs == UNION {Chains(n) : n \in 1..MaxChainOps}

\* inputs and displays asserted by test_infix_expressions, test_array_index
\* and test_precedence
PrecedenceFixtures ==
    {<<"-a * b", "((-a) * b);\n">>,
     <<"a + b * c + d / e - f", "(((a + (b * c)) + (d / e)) - f);\n">>,
     <<"5 > 4 == 3 < 4", "((5 > 4) == (3 < 4));\n">>,
     <<"3 + 4 * 5 == 3 * 1 + 4 * 5", "((3 + (4 * 5)) == ((3 * 1) + (4 * 5)));\n">>,
     <<"1 + (2 + 3) + 4", "((1 + (2 + 3)) + 4);\n">>,
     <<"-(5 + 5)", "(-(5 + 5));\n">>,
     <<"!(true == true)", "(!(true == true));\n">>,
     <<"myArray[1 + 1]", "(myArray[(1 + 1)]);\n">>,
     <<"a * [1, 2, 3, 4][b * c] * d", "((a * ([1, 2, 3, 4][(b * c)])) * d);\n">>,
     <<"add(a * b[2], b[1], 2 * [1, 2][1])",
       "add((a * (b[2])), (b[1]), (2 * ([1, 2][1])));\n">>}

\* expressions of every kind without parentheses of their own
UngroupedInputs ==
    {"-a + b", "!a == b", "-a * -b", "a + f(b) * c", "f(a + b)[c] - d",
     "a[b + c] * d", "-a[b]", "!f(a)", "[a + b, c * d][a] + e", "f(a)(b) + c",
     "a < b + f(c * d, e)", "-1 + 2 * 3", "a[1][2] / b"}

\* programs with the forms the display has to carry
DisplayCorpus ==
    {"let x = 5;",
     "let y = x + 1; return y;",
     "return -a * !b;",
     "fn(x, y) { x + y; }",
     "let add = fn(x, y) { return x + y; }; add(1, 2 * 3);",
     "if (x < y) { x } else { y }",
     "if (x) { y }",
     "if (!x) { 1 } else { 2 }",
     "if (f(x)) { return 1; }",
     "\"ab\"",
     "\"a b\"",
     "let s = \"\";",
     "let s = \"a\" + \"b c\";",
     "[1, 2 * 2, \"x\"][1]",
     "let x 5;",
     "let = 1; 2",
     "1 + ; 2",
     "(1 + 2",
     "\"a\\"}

\* statements that parse, and statements that fail with one error and leave
\* the parser able to go on with the statement that follows
GoodStatements == {"let a = 1;", "a + 2;"}
BadStatements == {"let 1;", "(2;", ")"}

\* the end of the text: nothing more, or a string that the input ends in
\* (a token read that fails)
UnfinishedEndings == {"\"b", "let c = \"b"}
Endings == {""} \cup UnfinishedEndings

\* lists of one to n statements
RECURSIVE StatementLists(_)
StatementLists(n) ==
    IF n = 0 THEN {}
    ELSE {<<s>> : s \in GoodStatements \cup BadStatements}
         \cup StatementLists(n - 1)
         \cup {Append(l, s) : l \in StatementLists(n - 1),
                              s \in GoodStatements \cup BadStatements}

\* the statements and the ending, one space between two of them
RECURSIVE ProgramText(_, _)
ProgramText(statements, ending) ==
    IF statements = <<>> THEN ending
    ELSE statements[1]
         \o (IF Len(statements) = 1 /\ ending = "" THEN "" ELSE " ")
         \o ProgramText(Tail(statements), ending)

ProgramInputs ==
    {ProgramText(l, e) : l \in StatementLists(MaxStatements), e \in Endings}

\* a left operand, an infix operator and a token that starts no expression
OperandTexts == {"5", "a"}
NoExpressionTexts == {";", ")"}
MissingOperand(left, operator, token) == left \o " " \o operator \o " " \o token

MissingOperandInputs ==
    {MissingOperand(l, o, t) :
        l \in OperandTexts, o \in InfixOperators, t \in NoExpressionTexts}

\* a block that is opened and the statements of it the input ends in
BlockOpenings == {"if (a) {", "if (a) { 1 } else {", "fn(x) {", "let f = fn() {"}
BlockBodies == {"", " 1", " let b = 2;", " b; 3"}

UnclosedBlockInputs == {o \o b : o \in BlockOpenings, b \in BlockBodies}

ParseInputs ==
    ChainInputs \cup {f[1] : f \in PrecedenceFixtures} \cup UngroupedInputs
        \cup DisplayCorpus \cup ProgramInputs \cup MissingOperandInputs
        \cup UnclosedBlockInputs

InitParse ==
    /\ pc = "parse"
    /\ input \in ParseInputs
    /\ stop_at_first_error \in BOOLEAN
    /\ lexer = LexerNew(input)
    /\ tokens = <<>>
    /\ parsed = NoParse
    /\ displayed = ""
    /\ reparsed = NoParse
    /\ environment = EnvNew
    /\ evaluated = NoParse
    /\ overflow_checks = TRUE
    /\ aborted = FALSE
    /\ history = <<>>
    /\ operation = NoOperation

\* lex and parse the input
ParseInput ==
    /\ pc = "parse"
    /\ \E r \in {ParseProgram(ParserNew(lexer), stop_at_first_error)} :
          /\ parsed' = Outcome(r)
          /\ lexer' = r.p.lexer
          /\ aborted' = (r.status = "Panic")
          /\ pc' = IF r.status = "Ok" THEN "parsed" ELSE "done"
    /\ UNCHANGED <<input, tokens, displayed, reparsed, environment, evaluated,
                   overflow_checks, stop_at_first_error, history, operation>>

\* display the Program, then lex and parse the displayed text
DisplayAndReparse ==
    /\ pc = "parsed"
    /\ displayed' = DisplayProgram(parsed.statements)
    /\ \E r \in {ParseText(DisplayProgram(parsed.statements), stop_at_first_error)} :
          /\ reparsed' = Outcome(r)
          /\ aborted' = (r.status = "Panic")
    /\ pc' = "done"
    /\ UNCHANGED <<input, lexer, tokens, parsed, environment, evaluated,
                   overflow_checks, stop_at_first_error, history, operation>>

NextParse == ParseInput \/ DisplayAndReparse

SpecParse == InitParse /\ [][NextParse]_vars

\* --------------------------------------- specification: execute_program

\* the Result<ObjectType, EvaluatorError> of eval
ResultOf(r) ==
    CASE r.status = "Ok" -> Ok(r.val)
      [] r.status = "Err" -> Err(r.err)
      [] OTHER -> Panic

\* conditions that evaluate to a Boolean, without a call
BooleanConditions == {"true", "false", "1 < 2", "1 > 2"}

\* returns at two depths of if/else, each followed by a let
ReturnProgram(c1, c2) ==
    "if (" \o c1 \o ") { if (" \o c2 \o ") { return 1; } let a = 7; return 2; } "
        \o "else { if (" \o c2 \o ") { let d = 6; } else { return 4; } } "
        \o "let b = 8; return 3; let c = 9;"

\* inputs of test_return_statements
ReturnFixtures ==
    {"return 10;", "return 10; 9;", "return 2 * 5; 9;", "9; return 2 * 5; 9;",
     "if (10 > 1) { if (10 > 1) { return 10; } return 1; }"}

ReturnInputs ==
    {ReturnProgram(c1, c2) : c1 \in BooleanConditions, c2 \in BooleanConditions}
        \cup ReturnFixtures

\* conditions that evaluate to an Integer, a Boolean or Null
ConditionTexts ==
    {"0", "1 - 1", "2 * 0", "1", "5", "-1", "true", "false", "1 < 2", "1 > 2",
     "!0", "if (false) { 1 }"}

IfElseProgram(c) == "if (" \o c \o ") { 1 } else { 2 }"

IfProgram(c) == "if (" \o c \o ") { 1 }"

IfInputs ==
    {IfElseProgram(c) : c \in ConditionTexts} \cup {IfProgram(c) : c \in ConditionTexts}

ReturnedTexts == {"1", "5", "true", "\"s\""}

\* a call whose body returns, followed by a statement
CallThenTwo(v) == "let f = fn() { return " \o v \o "; }; f(); 2;"

\* the value of a call whose body returns, bound by let
CallThenLet(v) == "let f = fn() { return " \o v \o "; }; let x = f();"

\* inputs of test_function_application
CallFixtures ==
    {"let identity = fn(x) { x; }; identity(5);",
     "let identity = fn(x) { return x; }; identity(5);",
     "let double = fn(x) { x * 2; }; double(5);",
     "let add = fn(x, y) { x + y; }; add(5, 5);",
     "let add = fn(x, y) { x + y; }; add(5 + 5, add(5, 5));",
     "fn(x) { x; }(5)"}

CallInputs ==
    {CallThenTwo(v) : v \in ReturnedTexts} \cup {CallThenLet(v) : v \in ReturnedTexts}
        \cup CallFixtures

BoundTexts == {"5", "true", "\"s\""}

\* the body names y, which is bound after the literal is evaluated
BoundAfterLiteral(v) == "let f = fn() { y }; let y = " \o v \o "; f()"

\* the body names y, which is bound in the frame of the caller only
BoundInCaller(v) ==
    "let f = fn() { y }; let g = fn() { let y = " \o v \o "; f() }; g()"

\* the body names y, which is bound nowhere
ScopeFixtures == {"let f = fn() { y }; f()", "let f = fn(x) { y }; let x = 1; f(2)"}

ScopeInputs ==
    {BoundAfterLiteral(v) : v \in BoundTexts} \cup {BoundInCaller(v) : v \in BoundTexts}
        \cup ScopeFixtures

\* x is bound, f is defined, x is bound again, f is called
Rebound(v, w) ==
    "let x = " \o v \o "; let f = fn() { x }; let x = " \o w \o "; f()"

\* the same with the three statements in the body of a called function,
\* where x is bound when the outer function is called
ReboundInCall(v, w) ==
    "let h = fn() { let f = fn() { x }; let x = " \o w \o "; f() }; let x = "
        \o v \o "; h()"

\* input of test_closure
NewAdder ==
    "let newAdder = fn(x) { fn(y) { x + y }; }; let addTwo = newAdder(2); addTwo(2);"

ClosureInputs ==
    {Rebound(v, w) : v \in BoundTexts, w \in BoundTexts}
        \cup {ReboundInCall(v, w) : v \in BoundTexts, w \in BoundTexts}
        \cup {NewAdder}

\* expressions bound to a built-in name: one that evaluates, one that
\* aborts, one that fails, one function literal
ShadowedTexts == {"5", "1 / 0", "foo", "fn(x) { x }"}

\* let b = e; for a built-in name b (test_builtin: "let len = 5;")
ShadowLet(b, e) == "let " \o b \o " = " \o e \o ";"

\* the same after a let that succeeds
ShadowAfterLet(b) == "let x = 1; let " \o b \o " = 2; x"

\* a function with a parameter named b, which names b in its body
ShadowByParameter(b) == "let f = fn(" \o b \o ") { " \o b \o " }; f(5)"

ShadowInputs ==
    {ShadowLet(b, e) : b \in BUILTINS, e \in ShadowedTexts}
        \cup {ShadowAfterLet(b) : b \in BUILTINS}
        \cup {ShadowByParameter(b) : b \in BUILTINS}

\* operands of one type each; two texts of a group are the same text
\* exactly when their values are equal
EqualityOperands ==
    {{"1", "2"}, {"true", "false"}, {"\"a\"", "\"b\""}, {"[1, 2]", "[1, 3]", "[]"}}

\* a == b and a != b
Comparison(a, operator, b) == a \o " " \o operator \o " " \o b

EqualityInputs ==
    {Comparison(a, operator, b) :
         a \in UNION EqualityOperands, operator \in {"==", "!="}, b \in UNION EqualityOperands}

\* programs that fail to parse, fail to evaluate or abort
FailingInputs == {"let x 5;", "foo", "1 + true", "1 / 0", "2047 + 2047", "\"a\\"}

\* `!` and `!!` applied to a condition
Bang(c) == "!(" \o c \o ")"
BangBang(c) == "!!(" \o c \o ")"

BangInputs == {Bang(c) : c \in ConditionTexts} \cup {BangBang(c) : c \in ConditionTexts}

\* array literals and values as <<text, value>>, for the array built-ins
ArrayFixtures ==
    {<<"[]", Array(<<>>)>>, <<"[1]", Array(<<Integer(1)>>)>>,
     <<"[1, 2]", Array(<<Integer(1), Integer(2)>>)>>}
ValueFixtures == {<<"3", Integer(3)>>, <<"true", Boolean(TRUE)>>}

\* the call alone, and the call on a variable that is read after it
PushCall(a, v) == "push(" \o a \o ", " \o v \o ")"
PopCall(a) == "pop(" \o a \o ")"
ReadAfter(a, call) == "let a = " \o a \o "; let b = " \o call \o "; a"

ArrayInputs ==
    {PushCall(a[1], v[1]) : a \in ArrayFixtures, v \in ValueFixtures}
        \cup {PopCall(a[1]) : a \in ArrayFixtures}
        \cup {ReadAfter(a[1], PushCall("a", v[1])) :
                  a \in ArrayFixtures, v \in ValueFixtures}
        \cup {ReadAfter(a[1], PopCall("a")) : a \in ArrayFixtures}

\* the first m parameter names, and n arguments, separated by commas; the
\* k-th argument is the literal k * k + 1
RECURSIVE ParameterList(_), ArgumentList(_)
ParameterList(m) ==
    IF m = 0 THEN ""
    ELSE IF m = 1 THEN OperandNames[1]
    ELSE ParameterList(m - 1) \o ", " \o OperandNames[m]
ArgumentValue(k) == k * k + 1
ArgumentList(n) ==
    IF n = 0 THEN ""
    ELSE IF n = 1 THEN ToString(ArgumentValue(1))
    ELSE ArgumentList(n - 1) \o ", " \o ToString(ArgumentValue(n))

\* a body that subtracts the later parameters from the first, and one that
\* divides by zero
RECURSIVE Difference(_)
Difference(m) ==
    IF m = 0 THEN "7"
    ELSE IF m = 1 THEN OperandNames[1]
    ELSE Difference(m - 1) \o " - " \o OperandNames[m]
ArityBodies == {"difference", "abort"}
ArityBody(body, m) == IF body = "difference" THEN Difference(m) ELSE "1 / 0"

\* a function of m parameters called with n arguments
ArityCall(m, n, body) ==
    "let g = fn(" \o ParameterList(m) \o ") { " \o ArityBody(body, m)
        \o " }; g(" \o ArgumentList(n) \o ")"

\* calls whose arguments name the caller's bindings or fail, as
\* <<text, result>>
ArgumentFixtures ==
    {<<"let a = 1; let g = fn(a) { a }; g(a + 1)", Ok(Integer(2))>>,
     <<"let b = 5; let g = fn(a) { let b = 9; a }; g(b)", Ok(Integer(5))>>,
     <<"let g = fn(a, b) { a }; g(foo, bar)", Err(UnknownIdentifier("foo"))>>,
     <<"let g = fn(a, b) { a }; g(foo, 1 / 0)", Err(UnknownIdentifier("foo"))>>,
     <<"let g = fn(a, b) { a }; g(1 / 0, foo)", Panic>>}

ArityInputs ==
    {ArityCall(m, n, body) :
        m \in 0..MaxParameters, n \in 0..MaxArguments, body \in ArityBodies}
        \cup {f[1] : f \in ArgumentFixtures}

\* operands: two names bound nowhere, one literal, one division by zero
FailingOperands == {"x", "y"}
Operands == FailingOperands \cup {"1", "1 / 0"}

\* expressions of two operands, the left one evaluated first
OperandShapes == {"infix", "call", "arguments", "elements", "index"}
Shaped(shape, left, right) ==
    CASE shape = "infix" -> left \o " + " \o right
      [] shape = "call" -> left \o "(" \o right \o ")"
      [] shape = "arguments" -> "len(" \o left \o ", " \o right \o ")"
      [] shape = "elements" -> "[" \o left \o ", " \o right \o "]"
      [] OTHER -> left \o "[" \o right \o "]"

\* the expression between two lets that succeed, and before a statement
\* that fails
Surrounded(shape, left, right) ==
    "let a = 1; let c = " \o Shaped(shape, left, right) \o "; let b = 2; z"

FirstFailureInputs ==
    {Surrounded(shape, left, right) :
        shape \in OperandShapes, left \in Operands, right \in Operands}

\* bodies that bind x, which the caller binds too, as <<text, result>>
LetBodies ==
    {<<"let x = 2; x", Ok(Integer(2))>>,
     <<"let x = 2; let y = 3; x + y", Ok(Integer(5))>>,
     <<"let x = 2; foo", Err(UnknownIdentifier("foo"))>>,
     <<"let p = 4; let x = p; x", Ok(Integer(4))>>,
     <<"let h = fn() { let x = 5; x }; let x = 2; h() + x", Ok(Integer(7))>>}

\* what follows the call in the caller
AfterCall == {"", "; x", "; let y = x; y"}

\* the caller binds x to v, defines f with the body, calls f
LetInBody(v, body, after) ==
    "let x = " \o v \o "; let f = fn(p) { " \o body \o " }; f(9)" \o after

FrameInputs ==
    {LetInBody(v[1], body[1], after) :
        v \in ValueFixtures, body \in LetBodies, after \in AfterCall}

ExecInputs ==
    ReturnInputs \cup IfInputs \cup CallInputs \cup ScopeInputs \cup ClosureInputs
        \cup FailingInputs \cup ShadowInputs \cup EqualityInputs
        \cup ArrayInputs \cup BangInputs \cup ArityInputs \cup FirstFailureInputs
        \cup FrameInputs

InitExec ==
    /\ pc = "exec"
    /\ input \in ExecInputs
    /\ stop_at_first_error \in BOOLEAN
    /\ overflow_checks \in BOOLEAN
    /\ lexer = LexerNew(input)
    /\ tokens = <<>>
    /\ parsed = NoParse
    /\ displayed = ""
    /\ reparsed = NoParse
    /\ environment = EnvNew
    /\ evaluated = NoParse
    /\ aborted = FALSE
    /\ history = <<>>
    /\ operation = NoOperation

\* execute_program
ExecuteProgram ==
    /\ pc = "exec"
    /\ \E program \in {ParseProgram(ParserNew(lexer), stop_at_first_error)} :
          /\ parsed' = Outcome(program)
          /\ lexer' = program.p.lexer
          /\ IF program.status = "Ok"
             THEN \E result \in {Eval(program.statements, environment)} :
                     /\ evaluated' = ResultOf(result)
                     /\ environment' = result.env
                     /\ aborted' = (result.status = "Panic")
             ELSE /\ UNCHANGED <<evaluated, environment>>
                  /\ aborted' = (program.status = "Panic")
    /\ pc' = "done"
    /\ UNCHANGED <<input, tokens, displayed, reparsed, overflow_checks,
                   stop_at_first_error, history, operation>>

NextExec == ExecuteProgram

SpecExec == InitExec /\ [][NextExec]_vars

\* ------------------------------------ specification: integer operations

\* integers at and next to the ends of the range, and around zero
IntSamples == {IntMin, IntMin + 1, -7, -1, 0, 1, 2, 3, IntMax - 1, IntMax}

ArithmeticOperators == {"+", "-", "*", "/"}

InitInt ==
    /\ pc = "int"
    /\ operation \in [operator : ArithmeticOperators, left : IntSamples,
                      right : IntSamples]
    /\ overflow_checks \in BOOLEAN
    /\ input = ""
    /\ lexer = LexerNew("")
    /\ tokens = <<>>
    /\ parsed = NoParse
    /\ displayed = ""
    /\ reparsed = NoParse
    /\ environment = EnvNew
    /\ evaluated = NoParse
    /\ aborted = FALSE
    /\ stop_at_first_error = FALSE
    /\ history = <<>>

\* eval_integer_infix_expression on the operands
IntegerInfix ==
    /\ pc = "int"
    /\ evaluated' = EvalIntegerInfixExpression(operation.operator, operation.left,
                                               operation.right)
    /\ aborted' = (evaluated'.status = "Panic")
    /\ pc' = "infix"
    /\ UNCHANGED <<input, lexer, tokens, parsed, displayed, reparsed, environment,
                   overflow_checks, stop_at_first_error, history, operation>>

\* eval_minus_prefix_operator_expression on the left operand
IntegerMinusPrefix ==
    /\ pc = "int"
    /\ evaluated' = EvalMinusPrefixOperatorExpression(Integer(operation.left))
    /\ aborted' = (evaluated'.status = "Panic")
    /\ pc' = "prefix"
    /\ UNCHANGED <<input, lexer, tokens, parsed, displayed, reparsed, environment,
                   overflow_checks, stop_at_first_error, history, operation>>

NextInt == IntegerInfix \/ IntegerMinusPrefix

SpecInt == InitInt /\ [][NextInt]_vars

\* ---- specification: index operations, built-in calls, infix operations

\* the arrays [0], [0, 1], ... of up to MaxArrayLen elements, and strings
\* with and without a character of two bytes
IndexTargets ==
    {Array([k \in 1..n |-> Integer(k - 1)]) : n \in 0..MaxArrayLen}
        \cup {String(s) : s \in {"", "a", "Hello", "é", "aé", "éa"}}

\* indexes below, inside and above every target, and the ends of the range
IndexSamples == (-2..(MaxArrayLen + 3)) \cup {IntMin, IntMax}

\* the built-ins other than print and println, with the number of arguments
\* each is declared with
FixedArity ==
    [name \in {"len", "first", "last", "rest", "push", "pop"} |->
        IF name = "push" THEN 2 ELSE 1]

\* argument lists: every target alone, and every list of up to
\* MaxArguments values of four kinds
ArgumentValues == {Array(<<>>), Array(<<Integer(0)>>), String("a"), Integer(1)}

RECURSIVE ArgumentLists(_)
ArgumentLists(n) ==
    IF n = 0 THEN {<<>>}
    ELSE ArgumentLists(n - 1)
         \cup {Append(l, v) : l \in ArgumentLists(n - 1), v \in ArgumentValues}

CallArguments ==
    {<<t>> : t \in IndexTargets \cup {Integer(1)}} \cup ArgumentLists(MaxArguments)

\* operands of an infix operator, two or more of every kind
InfixOperands ==
    {Integer(0), Integer(1), Boolean(TRUE), Boolean(FALSE), String(""), String("a"),
     String("b"), Null, Array(<<>>), Array(<<Integer(0)>>)}

InitIndex ==
    /\ pc = "index"
    /\ operation \in
           [operator : {"[]"}, target : IndexTargets, index : IndexSamples]
               \cup [operator : DOMAIN FixedArity, arguments : CallArguments]
               \cup [operator : InfixOperators, left : InfixOperands,
                     right : InfixOperands]
    /\ input = ""
    /\ lexer = LexerNew("")
    /\ tokens = <<>>
    /\ parsed = NoParse
    /\ displayed = ""
    /\ reparsed = NoParse
    /\ environment = EnvNew
    /\ evaluated = NoParse
    /\ overflow_checks = TRUE
    /\ aborted = FALSE
    /\ stop_at_first_error = FALSE
    /\ history = <<>>

\* eval_index_expression on the evaluated target and index
IndexOperation ==
    /\ pc = "index"
    /\ operation.operator = "[]"
    /\ evaluated' = EvalIndexExpression(operation.target, Integer(operation.index))
    /\ aborted' = (evaluated'.status = "Panic")
    /\ pc' = "done"
    /\ UNCHANGED <<input, lexer, tokens, parsed, displayed, reparsed, environment,
                   overflow_checks, stop_at_first_error, history, operation>>

\* the call of a built-in on evaluated arguments
BuiltinCall ==
    /\ pc = "index"
    /\ operation.operator \in BUILTINS
    /\ evaluated' = CallBuiltin(operation.operator, operation.arguments)
    /\ aborted' = (evaluated'.status = "Panic")
    /\ pc' = "done"
    /\ UNCHANGED <<input, lexer, tokens, parsed, displayed, reparsed, environment,
                   overflow_checks, stop_at_first_error, history, operation>>

\* eval_infix_expression on the evaluated operands
InfixOperation ==
    /\ pc = "index"
    /\ operation.operator \in InfixOperators
    /\ evaluated' = EvalInfixExpression(operation.operator, operation.left,
                                        operation.right)
    /\ aborted' = (evaluated'.status = "Panic")
    /\ pc' = "done"
    /\ UNCHANGED <<input, lexer, tokens, parsed, displayed, reparsed, environment,
                   overflow_checks, stop_at_first_error, history, operation>>

NextIndex == IndexOperation \/ BuiltinCall \/ InfixOperation

SpecIndex == InitIndex /\ [][NextIndex]_vars

\* ------------------------ specification: the loops of the parser, by step

\* programs: lists of statements, unclosed blocks, and literals that abort
\* the third token read
AbortingEndings == {ToString(IntMax + 1), "\"c\\"}
ProgramLoopInputs ==
    ProgramInputs \cup UnclosedBlockInputs
        \cup {"a; " \o e : e \in AbortingEndings}

\* blocks, from the opening brace: closed, unclosed, followed by a token,
\* with a statement that fails, with a token read that fails or aborts
BlockClosings == {" }", "", " } a"}
BlockLoopInputs ==
    {"{" \o body \o closing : body \in BlockBodies, closing \in BlockClosings}
        \cup {"{ ) }", "{ let 1 }", "{ a; \"b", "{ if (a) { b } c }"}
        \cup {"{ a; " \o e : e \in AbortingEndings}

\* inputs on which Parser::new returns
Constructible(inputs) == {i \in inputs : ~ParserNew(LexerNew(i)).lexer.panicked}

InitLoop ==
    /\ \E function \in {"parse_program", "parse_block_statement"} :
          /\ input \in Constructible(IF function = "parse_program"
                                     THEN ProgramLoopInputs ELSE BlockLoopInputs)
          /\ pc = (IF function = "parse_program" THEN "program" ELSE "enter")
          /\ operation = [operator |-> function,
                          parser |-> ParserNew(LexerNew(input)),
                          statements |-> <<>>, errors |-> <<>>]
    /\ lexer = operation.parser.lexer
    /\ history = <<lexer.position>>
    /\ stop_at_first_error \in BOOLEAN
    /\ overflow_checks = TRUE
    /\ tokens = <<>>
    /\ parsed = NoParse
    /\ displayed = ""
    /\ reparsed = NoParse
    /\ environment = EnvNew
    /\ evaluated = NoParse
    /\ aborted = FALSE

\* a token read or a statement panicked: the process is gone
LoopAbort(p) ==
    /\ pc' = "aborted"
    /\ aborted' = TRUE
    /\ lexer' = p.lexer
    /\ UNCHANGED <<operation, history, parsed>>

\* the function returns
LoopReturn(p, result) ==
    /\ pc' = "done"
    /\ parsed' = result
    /\ lexer' = p.lexer
    /\ operation' = [operation EXCEPT !.parser = p]
    /\ UNCHANGED <<history, aborted>>

\* the loop condition is evaluated again
LoopHead(p, statements, errors, loop) ==
    /\ pc' = loop
    /\ operation' = [operation EXCEPT !.parser = p, !.statements = statements,
                                      !.errors = errors]
    /\ history' = Append(history, p.lexer.position)
    /\ lexer' = p.lexer
    /\ UNCHANGED <<parsed, aborted>>

Pushed(statements, statement) ==
    IF statement.kind = "EmptyStatement" THEN statements
    ELSE Append(statements, statement)

\* one iteration of the while loop of parse_program (parser.rs:69-89)
ProgramIteration ==
    /\ pc = "program"
    /\ operation.parser.cur_token.kind # "EOF"
    /\ \E stmt \in {ParseStatement(operation.parser)} :
          IF stmt.p.lexer.panicked THEN LoopAbort(stmt.p)
          ELSE IF ~stmt.ok /\ stop_at_first_error
          THEN LoopReturn(stmt.p, [status |-> "Err",
                                   errors |-> Append(operation.errors, stmt.err)])
          ELSE \E next \in {ParserNextToken(stmt.p)} :
                  IF next.lexer.panicked THEN LoopAbort(next)
                  ELSE LoopHead([next EXCEPT !.failed = <<>>],
                                IF stmt.ok THEN Pushed(operation.statements, stmt.v)
                                ELSE operation.statements,
                                (IF stmt.ok THEN operation.errors
                                 ELSE Append(operation.errors, stmt.err))
                                    \o next.failed,
                                "program")
    /\ UNCHANGED <<input, tokens, displayed, reparsed, environment, evaluated,
                   overflow_checks, stop_at_first_error>>

\* the end of parse_program (parser.rs:91-95)
ProgramReturn ==
    /\ pc = "program"
    /\ operation.parser.cur_token.kind = "EOF"
    /\ LoopReturn(operation.parser,
                  IF Len(operation.errors) > 0
                  THEN [status |-> "Err", errors |-> operation.errors]
                  ELSE [status |-> "Ok", statements |-> operation.statements])
    /\ UNCHANGED <<input, tokens, displayed, reparsed, environment, evaluated,
                   overflow_checks, stop_at_first_error>>

\* self.next_token()? past the LBRACE (parser.rs:175)
BlockEnter ==
    /\ pc = "enter"
    /\ \E next \in {ParserNextToken(operation.parser)} :
          IF next.lexer.panicked THEN LoopAbort(next)
          ELSE IF next.failed # <<>>
          THEN LoopReturn([next EXCEPT !.failed = <<>>],
                          [status |-> "Err", errors |-> next.failed])
          ELSE LoopHead(next, <<>>, <<>>, "block")
    /\ UNCHANGED <<input, tokens, displayed, reparsed, environment, evaluated,
                   overflow_checks, stop_at_first_error>>

\* one iteration of the while loop of parse_block_statement
\* (parser.rs:177-185)
BlockIteration ==
    /\ pc = "block"
    /\ operation.parser.cur_token.kind \notin {"RBRACE", "EOF"}
    /\ \E statement \in {ParseStatement(operation.parser)} :
          IF statement.p.lexer.panicked THEN LoopAbort(statement.p)
          ELSE IF ~statement.ok
          THEN LoopReturn(statement.p,
                          [status |-> "Err", errors |-> <<statement.err>>])
          ELSE \E next \in {ParserNextToken(statement.p)} :
                  IF next.lexer.panicked THEN LoopAbort(next)
                  ELSE IF next.failed # <<>>
                  THEN LoopReturn([next EXCEPT !.failed = <<>>],
                                  [status |-> "Err", errors |-> next.failed])
                  ELSE LoopHead(next, Pushed(operation.statements, statement.v),
                                <<>>, "block")
    /\ UNCHANGED <<input, tokens, displayed, reparsed, environment, evaluated,
                   overflow_checks, stop_at_first_error>>

\* Ok(statements) of parse_block_statement (parser.rs:187)
BlockReturn ==
    /\ pc = "block"
    /\ operation.parser.cur_token.kind \in {"RBRACE", "EOF"}
    /\ LoopReturn(operation.parser,
                  [status |-> "Ok", statements |-> operation.statements])
    /\ UNCHANGED <<input, tokens, displayed, reparsed, environment, evaluated,
                   overflow_checks, stop_at_first_error>>

NextLoop ==
    \/ ProgramIteration
    \/ ProgramReturn
    \/ BlockEnter
    \/ BlockIteration
    \/ BlockReturn

\* the thread of the parser runs until it returns or the process aborts
SpecLoop == InitLoop /\ [][NextLoop]_vars /\ WF_vars(NextLoop)

\* ------------------------------------------------ specification: the REPL

\* lines the user may type
ReplLines ==
    {"let x = 5;", "let f = fn() { return 7; };", "let x = f();", "x",
     "let y = x + 1;", "y", "let y 5;", "foo", "let x = 9; foo"}

Init ==
    /\ pc = "repl"
    /\ stop_at_first_error \in BOOLEAN
    /\ overflow_checks \in BOOLEAN
    /\ input = ""
    /\ lexer = ParserNew(LexerNew("")).lexer
    /\ tokens = <<>>
    /\ parsed = NoParse
    /\ displayed = ""
    /\ reparsed = NoParse
    /\ environment = EnvNew
    /\ evaluated = NoParse
    /\ aborted = FALSE
    /\ history = <<>>
    /\ operation = NoOperation

\* one turn of the loop of start on Ok(line): reset, parse and, when the
\* line parses, evaluate in the one environment
ReadLine(line) ==
    /\ pc = "repl"
    /\ ~aborted
    /\ Len(history) < MaxLines
    /\ history' = Append(history, line)
    /\ input' = line
    /\ \E program \in
           {ParseProgram(ParserReset([lexer |-> lexer, cur_token |-> TokenDefault,
                                      peek_token |-> TokenDefault,
                                      failed |-> <<>>], line),
                         stop_at_first_error)} :
          /\ parsed' = Outcome(program)
          /\ lexer' = program.p.lexer
          /\ IF program.status = "Ok"
             THEN \E result \in {Eval(program.statements, environment)} :
                     /\ evaluated' = ResultOf(result)
                     /\ environment' = result.env
                     /\ aborted' = (result.status = "Panic")
             ELSE /\ UNCHANGED <<evaluated, environment>>
                  /\ aborted' = (program.status = "Panic")
    /\ UNCHANGED <<pc, tokens, displayed, reparsed, overflow_checks,
                   stop_at_first_error, operation>>

\* the loop of start on Interrupted, Eof or an I/O error: break
EndOfInput ==
    /\ pc = "repl"
    /\ ~aborted
    /\ pc' = "exit"
    /\ UNCHANGED <<input, lexer, tokens, parsed, displayed, reparsed, environment,
                   evaluated, overflow_checks, aborted, stop_at_first_error, history,
                   operation>>

Next == (\E line \in ReplLines : ReadLine(line)) \/ EndOfInput

Spec == Init /\ [][Next]_vars

\* ----------------------------------------------------------------- claims

\* C1: the value of a call of a user-defined function is never a Return
\* wrapper.  When the body executes return, the statements after the call
\* are still evaluated, so "let f = fn() { return v; }; f(); 2;" yields 2,
\* and no binding of the environment holds a Return wrapper.
C1_ReturnStopsAtCall ==
    pc = "done" =>
        /\ \A v \in ReturnedTexts : input = CallThenTwo(v) => evaluated = Ok(Integer(2))
        /\ \A name \in DOMAIN environment.store :
               environment.store[name].kind # "Return"

\* the run of "let f = fn() { return 1; }; f(); 2;" that yields 1
C1_CallYieldsWrapper ==
    /\ pc = "done"
    /\ input = CallThenTwo("1")
    /\ evaluated = Ok(Integer(1))

\* C2: a body is evaluated in an environment enclosed by the captured one,
\* not by the caller's.  A name of the body that is no parameter, no
\* built-in and was not bound when the literal was evaluated yields
\* UnknownIdentifier, whether it is bound later or in the caller's frame.
C2_BodyIgnoresCallerBindings ==
    pc = "done" =>
        \A v \in BoundTexts :
            input \in {BoundAfterLiteral(v), BoundInCaller(v)} =>
                evaluated = Err(UnknownIdentifier("y"))

\* the run of "let f = fn() { y }; let y = 5; f()" that yields 5
C2_BodySeesLaterBinding ==
    /\ pc = "done"
    /\ input = BoundAfterLiteral("5")
    /\ evaluated = Ok(Integer(5))

\* the value a text of BoundTexts evaluates to
BoundValue(v) ==
    CASE v = "5" -> Integer(5)
      [] v = "true" -> Boolean(TRUE)
      [] OTHER -> String("s")

\* C3: a function value sees the bindings visible when its literal was
\* evaluated.  With x bound before "let f = fn() { x };", a later
\* "let x = ...;" in the same environment does not change the result of
\* f(), at top level and in the body of a called function alike, and
\* newAdder(2) applied to 2 yields 4.
C3_ClosureKeepsBindings ==
    pc = "done" =>
        /\ \A v, w \in BoundTexts :
               input \in {Rebound(v, w), ReboundInCall(v, w)} =>
                   evaluated = Ok(BoundValue(v))
        /\ input = NewAdder => evaluated = Ok(Integer(4))

\* the run in which f() yields the x bound after f's literal was evaluated
C3_ClosureSeesRebinding ==
    /\ pc = "done"
    /\ input = ReboundInCall("5", "true")
    /\ evaluated = Ok(Boolean(TRUE))

\* the level of an expression in the order LOWEST < EQUALS < LESSGREATER
\* < SUM < PRODUCT < PREFIX < CALL < INDEX; a literal or a name is above all
Level(e) ==
    CASE e.kind = "InfixExpression" ->
            (CASE e.operator \in {"==", "!="} -> 2
               [] e.operator \in {"<", ">", "<=", ">="} -> 3
               [] e.operator \in {"+", "-"} -> 4
               [] OTHER -> 5)
      [] e.kind = "PrefixExpression" -> 6
      [] e.kind = "CallExpression" -> 7
      [] e.kind = "IndexExpression" -> 8
      [] OTHER -> 9

\* every operator holds operands that bind at least as tightly on its left
\* and strictly tighter on its right; a prefix operator holds a prefix,
\* call, index or plain operand; a call or index is applied to one
RECURSIVE Grouped(_)
Grouped(e) ==
    CASE e.kind = "InfixExpression" ->
            /\ Level(e.left) >= Level(e) /\ Level(e.right) > Level(e)
            /\ Grouped(e.left) /\ Grouped(e.right)
      [] e.kind = "PrefixExpression" -> Level(e.right) >= 6 /\ Grouped(e.right)
      [] e.kind = "CallExpression" ->
            /\ Level(e.function) >= 7 /\ Grouped(e.function)
            /\ \A i \in 1..Len(e.arguments) : Grouped(e.arguments[i])
      [] e.kind = "IndexExpression" ->
            Level(e.left) >= 7 /\ Grouped(e.left) /\ Grouped(e.index)
      [] e.kind = "ArrayLiteral" -> \A i \in 1..Len(e.elements) : Grouped(e.elements[i])
      [] OTHER -> TRUE

\* the text of an expression written without any parentheses of grouping
RECURSIVE Ungrouped(_), UngroupedList(_)
UngroupedList(es) ==
    IF es = <<>> THEN ""
    ELSE IF Len(es) = 1 THEN Ungrouped(es[1])
    ELSE Ungrouped(es[1]) \o ", " \o UngroupedList(Tail(es))

Ungrouped(e) ==
    CASE e.kind = "InfixExpression" ->
            Ungrouped(e.left) \o " " \o e.operator \o " " \o Ungrouped(e.right)
      [] e.kind = "PrefixExpression" -> e.operator \o Ungrouped(e.right)
      [] e.kind = "CallExpression" ->
            Ungrouped(e.function) \o "(" \o UngroupedList(e.arguments) \o ")"
      [] e.kind = "IndexExpression" ->
            Ungrouped(e.left) \o "[" \o Ungrouped(e.index) \o "]"
      [] e.kind = "ArrayLiteral" -> "[" \o UngroupedList(e.elements) \o "]"
      [] OTHER -> DisplayExpression(e)

\* C4: the parser groups the operands of an expression by the precedence
\* order LOWEST < EQUALS < LESSGREATER < SUM < PRODUCT < PREFIX < CALL <
\* INDEX, equal precedence to the left: the tree of an input without
\* parentheses reads back as the input and is grouped by that order, and
\* the inputs of the parser's tests display as the tests assert.
C4_PrecedenceGrouping ==
    pc # "parse" =>
        /\ input \in ChainInputs \cup UngroupedInputs =>
               /\ parsed.status = "Ok"
               /\ Len(parsed.statements) = 1
               /\ parsed.statements[1].kind = "ExpressionStatement"
               /\ Ungrouped(parsed.statements[1].expression) = input
               /\ Grouped(parsed.statements[1].expression)
        /\ \A f \in PrecedenceFixtures :
               input = f[1] =>
                   parsed.status = "Ok" /\ DisplayProgram(parsed.statements) = f[2]

\* the array index between two products has been parsed and displayed
C4_IndexBetweenProducts ==
    /\ pc = "done"
    /\ input = "a * [1, 2, 3, 4][b * c] * d"
    /\ displayed = "((a * ([1, 2, 3, 4][(b * c)])) * d);\n"

\* Integer(0), Boolean(false) and Null are falsy; Boolean(true) and every
\* other Integer are truthy
Truthy(v) == (v.kind = "Boolean" /\ v.bool) \/ (v.kind = "Integer" /\ v.int # 0)

\* C5: if (c) {1} else {2} yields 2, and if (c) {1} yields Null, for every
\* condition that evaluates to Integer(0), Boolean(false) or Null; both
\* yield 1 for every other Integer and for Boolean(true).
C5_IfTruthiness ==
    (pc = "done" /\ input \in IfInputs) =>
        LET expression == parsed.statements[1].expression
            condition == EvalExpression(EnvNew, expression.condition).val
        IN evaluated = Ok(IF Truthy(condition) THEN Integer(1)
                          ELSE IF expression.alternative # <<>> THEN Integer(2)
                          ELSE Null)

\* the run of "if (0) { 1 } else { 2 }" that yields 1
C5_ZeroTakesConsequence ==
    /\ pc = "done"
    /\ input = IfElseProgram("0")
    /\ evaluated = Ok(Integer(1))

\* C6: every call of next_token returns a token, for every input: no call
\* aborts, the input ending inside a string or after a backslash included,
\* and every call after the first EOF returns EOF.
C6_LexerAlwaysReturns ==
    /\ ~aborted
    /\ \A i \in 1..(Len(tokens) - 1) :
           tokens[i].kind = "EOF" => tokens[i + 1].kind = "EOF"

\* the call of next_token on a quote followed by a backslash that aborts
C6_AbortInsideString ==
    /\ input = "\"\\"
    /\ aborted

\* the exact result of an operation on integers; the quotient is the one
\* truncated toward zero
Exact(operator, left, right) ==
    CASE operator = "+" -> left + right
      [] operator = "-" -> left - right
      [] operator = "*" -> left * right
      [] OTHER -> IF (left < 0) # (right < 0)
                  THEN -(Abs(left) \div Abs(right))
                  ELSE Abs(left) \div Abs(right)

\* C7: integer evaluation never aborts the host.  For all integers of the
\* width and each of + - * /, and for prefix -, the result is the exact
\* Integer or a structured error: no panic on a zero divisor or a result
\* outside the range, and no silent wrap.
C7_IntegerEvaluationTotal ==
    /\ pc = "infix" =>
           /\ evaluated.status \in {"Ok", "Err"}
           /\ (operation.operator = "/" /\ operation.right = 0) =>
                  evaluated.status = "Err"
           /\ evaluated.status = "Ok" =>
                  /\ evaluated.val =
                         Integer(Exact(operation.operator, operation.left, operation.right))
                  /\ evaluated.val.int \in IntMin..IntMax
    /\ pc = "prefix" =>
           /\ evaluated.status \in {"Ok", "Err"}
           /\ evaluated.status = "Ok" =>
                  /\ evaluated.val = Integer(-operation.left)
                  /\ evaluated.val.int \in IntMin..IntMax

\* the division by zero that aborts the host
C7_DivisionByZeroAborts ==
    /\ pc = "infix"
    /\ operation = [operator |-> "/", left |-> 1, right |-> 0]
    /\ aborted

\* C8: for every Program the parser produces, lexing and parsing its
\* display succeeds and gives a Program with the same display.
C8_DisplayRoundTrip ==
    (pc = "done" /\ parsed.status = "Ok") =>
        /\ reparsed.status = "Ok"
        /\ DisplayProgram(reparsed.statements) = displayed

\* the display of "if (x) { y }", which does not parse
C8_IfDisplayDoesNotParse ==
    /\ pc = "done"
    /\ input = "if (x) { y }"
    /\ displayed = "if x { y; }\n"
    /\ reparsed.status = "Err"

\* what one line read by the REPL does to the bindings and to the result;
\* the value of an expression is the one eval yields for it as a line
LineKeepsBindings ==
    history' # history =>
        /\ parsed'.status # "Ok" => environment' = environment
        /\ \A name \in DOMAIN environment.store :
               /\ name \in DOMAIN environment'.store
               /\ environment'.store[name] # environment.store[name] =>
                      /\ parsed'.status = "Ok"
                      /\ \E i \in 1..Len(parsed'.statements) :
                             /\ parsed'.statements[i].kind = "LetStatement"
                             /\ parsed'.statements[i].identifier = name
        /\ (parsed'.status = "Ok" /\ Len(parsed'.statements) = 1) =>
               LET statement == parsed'.statements[1]
               IN /\ (statement.kind = "LetStatement" /\ evaluated'.status = "Ok") =>
                         /\ EnvGet(environment', statement.identifier) # <<>>
                         /\ Unwrap(EnvGet(environment', statement.identifier)[1]) =
                                Unwrap(EvalExpression(environment, statement.value).val)
                  /\ (/\ statement.kind = "ExpressionStatement"
                      /\ statement.expression.kind = "Identifier"
                      /\ statement.expression.name \in DOMAIN environment.store) =>
                         /\ evaluated' =
                                Ok(Unwrap(environment.store[statement.expression.name]))
                         /\ environment' = environment

\* C9: the REPL evaluates every line against one environment.  A line
\* "let x = E;" that evaluates binds x to the value of E; a later line "x"
\* yields the value x is bound to; a binding changes only on a line that
\* holds a let of its name, so a line that fails to parse changes nothing
\* and a line that fails to evaluate removes nothing.
C9_BindingPersistence == [][LineKeepsBindings]_vars

\* x is read back after a line that fails between the let and the read
C9_ReadAfterFailedLine ==
    /\ history \in {<<"let x = 5;", line, "x">> : line \in {"let y 5;", "foo"}}
    /\ evaluated = Ok(Integer(5))

\* the conditions of BooleanConditions that hold
Holds(c) == c \in {"true", "1 < 2"}

\* the payload of the first return ReturnProgram(c1, c2) executes
FirstReturn(c1, c2) ==
    IF Holds(c1) THEN (IF Holds(c2) THEN 1 ELSE 2) ELSE (IF Holds(c2) THEN 3 ELSE 4)

\* the names of the lets ReturnProgram(c1, c2) executes before that return
LetsBeforeReturn(c1, c2) ==
    IF Holds(c1) THEN (IF Holds(c2) THEN {} ELSE {"a"})
    ELSE (IF Holds(c2) THEN {"d", "b"} ELSE {})

C11_BuiltinsNotShadowed ==
    pc = "done" =>
        \A b \in BUILTINS :
            /\ \A e \in ShadowedTexts :
                   input = ShadowLet(b, e) =>
                       /\ evaluated = Err(BuiltInFunction(b))
                       /\ environment = EnvNew
                       /\ ~aborted
            /\ input = ShadowAfterLet(b) =>
                   /\ evaluated = Err(BuiltInFunction(b))
                   /\ environment = EnvSet(EnvNew, "x", Integer(1))
            /\ input = ShadowByParameter(b) => evaluated = Ok(Builtin(b))

\* "let len = 1 / 0;" is refused before the division is evaluated
C11_LetOfBuiltinRefused ==
    /\ pc = "done"
    /\ input = ShadowLet("len", "1 / 0")
    /\ evaluated = Err(BuiltInFunction("len"))
    /\ ~aborted

\* the number of elements of an Array, of characters of a String
Length(target) ==
    IF target.kind = "Array" THEN Len(target.elements) ELSE Len(target.str)

C13_EqualityOfSameTypes ==
    pc = "done" =>
        /\ \A group \in EqualityOperands : \A a, b \in group :
               /\ input = Comparison(a, "==", b) => evaluated = Ok(Boolean(a = b))
               /\ input = Comparison(a, "!=", b) => evaluated = Ok(Boolean(a # b))
        /\ \A a \in {"1", "2"}, b \in {"true", "false"}, operator \in {"==", "!="} :
               input \in {Comparison(a, operator, b), Comparison(b, operator, a)} =>
                   /\ evaluated.status = "Err"
                   /\ evaluated.err.kind = "TypeMismatch"

\* "a" == "a" yields a TypeMismatch
C13_StringEqualityIsTypeMismatch ==
    /\ pc = "done"
    /\ input = Comparison("\"a\"", "==", "\"a\"")
    /\ evaluated = Err(TypeMismatch("a", "==", "a"))

\* ---------------------------------------------------------------- C14

\* the positions of the errors never go back in the text
InSourceOrder(errors) ==
    \A i \in 1..(Len(errors) - 1) :
        \/ errors[i].line < errors[i + 1].line
        \/ /\ errors[i].line = errors[i + 1].line
           /\ errors[i].column <= errors[i + 1].column

\* the statements of a list that fail to parse, plus the failed token read
\* of the ending
Failures(statements, ending) ==
    Cardinality({i \in 1..Len(statements) : statements[i] \in BadStatements})
        + (IF ending \in UnfinishedEndings THEN 1 ELSE 0)

Pieces(statements, ending) ==
    IF ending = "" THEN statements ELSE Append(statements, ending)

\* the first of them that fails
FirstFailing(pieces) ==
    CHOOSE k \in 1..Len(pieces) :
        /\ pieces[k] \in BadStatements \cup UnfinishedEndings
        /\ \A j \in 1..(k - 1) : pieces[j] \in GoodStatements

\* the error a failing piece is reported with
IsErrorOf(e, piece) ==
    CASE piece \in UnfinishedEndings -> e.kind = "UnfinishedString"
      [] piece = "let 1;" -> e.kind = "UnexpectedToken" /\ e.expected = "IDENT"
      [] piece = "(2;" -> e.kind = "UnexpectedToken" /\ e.expected = ")"
      [] piece = ")" -> e.kind = "UnexpectedToken" /\ e.expected = "Expression"

\* the length of the text up to the end of piece k
RECURSIVE TextLength(_, _)
TextLength(pieces, k) ==
    IF k = 0 THEN 0
    ELSE TextLength(pieces, k - 1) + (IF k = 1 THEN 0 ELSE 1) + Len(pieces[k])

FirstVisible(text, from) ==
    CHOOSE i \in from..Len(text) :
        /\ i = Len(text) \/ CharAt(text, i) \notin Whitespace
        /\ \A j \in from..(i - 1) : CharAt(text, j) \in Whitespace

\* line and column, counted from 1, of the character at an offset
LineOf(text, offset) ==
    1 + Cardinality({i \in 0..(offset - 1) : CharAt(text, i) = "\n"})
ColumnOf(text, offset) ==
    offset - Cardinality({i \in 0..(offset - 1) :
                             \E j \in i..(offset - 1) : CharAt(text, j) = "\n"})
           + 1

\* the kinds of token the positions are stated for
PositionedKinds ==
    {t \in {"ASSIGN", "PLUS", "MINUS", "BANG", "ASTERISK", "SLASH", "LT", "GT",
            "COMMA", "SEMICOLON", "LPAREN", "RPAREN", "LBRACE", "RBRACE",
            "EQ", "NOT_EQ", "LTE", "GTE", "IDENT", "INT", "STRING",
            "FUNCTION", "LET", "TRUE", "FALSE", "IF", "ELSE", "RETURN"} : TRUE}

\* C16: the token a call of next_token returns carries the line and the
\* column, counted from 1, of the first character of the token, whatever its
\* kind: one-character token, two-character operator, identifier, keyword,
\* integer or string.
C16_TokenPositions ==
    [][Len(tokens') = Len(tokens) + 1 =>
          LET token == tokens'[Len(tokens')]
              start == FirstVisible(input, lexer.position)
          IN  token.kind \in PositionedKinds =>
                 /\ token.line = LineOf(input, start)
                 /\ token.column = ColumnOf(input, start)]_vars

\* the keyword `let` at the start of the text is returned with column 4
C16_KeywordAtEndColumn ==
    /\ input = "let five = 5;"
    /\ Len(tokens) >= 1
    /\ tokens[1].kind = "LET"
    /\ tokens[1].line = 1
    /\ tokens[1].column = 4

\* ---------------------------------------------------------------- C17

\* C17: for a terminated string literal whose body is made of ordinary
\* characters and of the escape pairs \n \t \r \\ \" \', the first token is
\* STRING and its text is the body read from left to right, every pair
\* replaced by its character; an escaped backslash followed by n is a
\* backslash and an n.
C17_StringEscapes ==
    \A body \in Bodies(MaxBodyItems) :
        (input = StringLiteralText(body) /\ Len(tokens) >= 1) =>
            /\ tokens[1].kind = "STRING"
            /\ tokens[1].lit = BodyText(body, 2)

\* the escaped backslash followed by n is returned as a backslash and a
\* newline
C17_EscapedBackslashThenN ==
    /\ input = StringLiteralText(<< <<"\\\\", "\\">>, <<"n", "n">> >>)
    /\ Len(tokens) >= 1
    /\ tokens[1].kind = "STRING"
    /\ tokens[1].lit = "\\\n"

\* ---------------------------------------------------------------- C18

\* C18: for a string literal that the input ends in, the call of next_token
\* that reads it reports an error in the place of a token: it does not abort
\* and it returns no token, STRING or other, for the literal.
C18_UnterminatedStringIsError ==
    \A body \in Bodies(MaxBodyItems) :
        (input = UnterminatedText(body) /\ lexer # LexerNew(input)) =>
            /\ ~aborted
            /\ tokens = <<>>

\* the literal is returned as the token ILLEGAL('"'), with the column after
\* the end of the input
C18_IllegalTokenReturned ==
    /\ input = UnterminatedText(<< <<"a", "a">> >>)
    /\ Len(tokens) >= 1
    /\ tokens[1] = Token("ILLEGAL", "\"", 0, 1, 3)

\* ---------------------------------------------------------------- C19

\* C19: the call of next_token that reads a run of decimal digits returns
\* INT(v), v the decimal value, when v fits in an i64; when v is larger the
\* call neither aborts nor returns an INT.
C19_IntegerLiterals ==
    \A n \in LiteralValues :
        (input = ToString(n) /\ lexer # LexerNew(input)) =>
            /\ ~aborted
            /\ Len(tokens) >= 1
            /\ IF n <= IntMax
               THEN tokens[1].kind = "INT" /\ tokens[1].val = n
               ELSE tokens[1].kind # "INT"

\* the literal one above the largest i64 aborts the call
C19_OverflowAborts ==
    /\ input = ToString(IntMax + 1)
    /\ aborted
    /\ tokens = <<>>

\* ---------------------------------------------------------------- C20

\* C20: len with one argument returns Integer(n), n the length of a String
\* argument (of characters of one byte here) or the number of elements of an
\* Array argument; the empty String and the empty Array have length 0.
C20_LenOfStringOrArray ==
    (pc = "done" /\ operation.operator = "len" /\ Len(operation.arguments) = 1) =>
        LET target == operation.arguments[1]
        IN  (/\ target.kind \in {"String", "Array"}
             /\ target.kind = "String" => ByteLen(target.str) = Len(target.str)) =>
                evaluated = Ok(Integer(Length(target)))

\* len of the empty Array is refused
C20_LenOfEmptyArrayRefused ==
    /\ pc = "done"
    /\ operation.operator = "len"
    /\ operation.arguments = <<Array(<<>>)>>
    /\ evaluated = Err(ArgumentTypeNotSupported("len", "[]"))

\* ---------------------------------------------------------------- C21

\* a sequence without its last element
ButLast(s) == SubSeq(s, 1, Len(s) - 1)

\* C21: push(a, v) returns the Array a with v appended, pop(a) of an a that
\* has elements the Array a without its last element, and a variable bound
\* to a evaluates to the original array after either call.
C21_PushPopReturnNewArrays ==
    pc = "done" =>
        \A a \in ArrayFixtures :
            /\ \A v \in ValueFixtures :
                   /\ input = PushCall(a[1], v[1]) =>
                          evaluated = Ok(Array(Append(a[2].elements, v[2])))
                   /\ input = ReadAfter(a[1], PushCall("a", v[1])) =>
                          evaluated = Ok(a[2])
            /\ (input = PopCall(a[1]) /\ a[2].elements # <<>>) =>
                   evaluated = Ok(Array(ButLast(a[2].elements)))
            /\ input = ReadAfter(a[1], PopCall("a")) => evaluated = Ok(a[2])

\* pop of [1, 2] returns the element 2
C21_PopReturnsElement ==
    /\ pc = "done"
    /\ input = PopCall("[1, 2]")
    /\ evaluated = Ok(Integer(2))

\* ---------------------------------------------------------------- C22

\* the kinds of first argument a built-in is declared to work on
SupportedKinds(name) == IF name = "len" THEN {"String", "Array"} ELSE {"Array"}

\* C22: a built-in of arity k called with n # k arguments, n = 0 and n > k
\* included, returns WrongNumberOfArguments with expected k and actual n;
\* called with k arguments, the first of an unsupported kind, it returns
\* ArgumentTypeNotSupported naming the built-in.  No such call succeeds,
\* returns another kind of error or aborts.
C22_BuiltinArgumentErrors ==
    (pc = "done" /\ operation.operator \in DOMAIN FixedArity) =>
        LET name == operation.operator
            k == FixedArity[name]
            n == Len(operation.arguments)
        IN  /\ n # k => evaluated = Err(WrongNumberOfArguments(k, n))
            /\ (n = k /\ operation.arguments[1].kind \notin SupportedKinds(name)) =>
                   /\ evaluated.status = "Err"
                   /\ evaluated.err.kind = "ArgumentTypeNotSupported"
                   /\ evaluated.err.function_name = name

\* push with no argument aborts
C22_PushWithoutArgumentsAborts ==
    /\ pc = "done"
    /\ operation.operator = "push"
    /\ operation.arguments = <<>>
    /\ aborted

\* ---------------------------------------------------------------- C23

\* C23: when the token after an infix operator starts no expression,
\* parse_program returns an error, an UnexpectedToken with the line and the
\* column of that token, and not a Program.
C23_MissingOperandIsError ==
    \A l \in OperandTexts : \A o \in InfixOperators : \A t \in NoExpressionTexts :
        (pc # "parse" /\ input = MissingOperand(l, o, t)) =>
            /\ parsed.status = "Err"
            /\ \E i \in 1..Len(parsed.errors) :
                   /\ parsed.errors[i].kind = "UnexpectedToken"
                   /\ parsed.errors[i].line = 1
                   /\ parsed.errors[i].column = Len(l) + Len(o) + 3

\* `5 + ;` parses to the Program of the one statement 5
C23_LeftOperandAlone ==
    /\ input = MissingOperand("5", "+", ";")
    /\ parsed = [status |-> "Ok",
                 statements |-> <<ExpressionStatement(IntegerLiteral(5))>>]

\* ---------------------------------------------------------------- C24

\* C24: for an input that ends inside a block opened with `{`, the body of
\* an if, of an else or of a function literal, parse_program returns an
\* error and never a Program.
C24_UnclosedBlockIsError ==
    (pc # "parse" /\ input \in UnclosedBlockInputs) => parsed.status = "Err"

\* the if whose consequence is not closed parses to a Program
C24_UnclosedConsequenceParses ==
    /\ input = "if (a) { 1"
    /\ parsed = [status |-> "Ok",
                 statements |->
                     <<ExpressionStatement(
                         IfExpression(Identifier("a"),
                                      <<ExpressionStatement(IntegerLiteral(1))>>,
                                      <<>>))>>]

\* ---------------------------------------------------------------- C25

\* C25: for a condition that evaluates to a Boolean, an Integer or Null,
\* `!` yields Boolean(true) exactly when `if` does not take its consequence
\* on the same value, and `!!` yields the Boolean of that truthiness.
C25_BangInvertsTruthiness ==
    (pc = "done" /\ input \in BangInputs) =>
        LET bang == parsed.statements[1].expression
            once == input \in {Bang(c) : c \in ConditionTexts}
            operand == IF once THEN bang.right ELSE bang.right.right
            v == EvalExpression(EnvNew, operand).val
        IN  evaluated = Ok(Boolean(IF once THEN ~IsTruthy(v) ELSE IsTruthy(v)))

\* `!0` is true although `if (0)` takes its consequence
C25_BangOfZeroIsTrue ==
    /\ pc = "done"
    /\ input = Bang("0")
    /\ evaluated = Ok(Boolean(TRUE))
    /\ IsTruthy(Integer(0))

\* ---------------------------------------------------------------- C26

\* the pairs of operands and operators that have no result
Mismatched(left, operator, right) ==
    \/ left.kind = "Boolean" /\ right.kind = "Boolean" /\ operator \notin {"==", "!="}
    \/ left.kind = "String" /\ right.kind = "String" /\ operator # "+"
    \/ left.kind # right.kind
    \/ left.kind \notin {"Integer", "Boolean", "String"}

\* C26: two Booleans with an operator other than == and !=, two Strings with
\* an operator other than +, and two operands of different kinds or of a
\* kind other than Integer, Boolean and String yield a TypeMismatch that
\* carries the operator; two Strings with + yield the left one followed by
\* the right one.
C26_InfixDispatch ==
    (pc = "done" /\ operation.operator \in InfixOperators) =>
        /\ Mismatched(operation.left, operation.operator, operation.right) =>
               /\ evaluated.status = "Err"
               /\ evaluated.err.kind = "TypeMismatch"
               /\ evaluated.err.operator = operation.operator
        /\ (/\ operation.left.kind = "String"
            /\ operation.right.kind = "String"
            /\ operation.operator = "+") =>
               evaluated = Ok(String(operation.left.str \o operation.right.str))

\* "a" + "b" is "ab"
C26_ConcatenationLeftThenRight ==
    /\ pc = "done"
    /\ operation = [operator |-> "+", left |-> String("a"), right |-> String("b")]
    /\ evaluated = Ok(String("ab"))

\* ---------------------------------------------------------------- C27

\* C27: a function of m parameters called with n arguments, n # m, yields
\* WrongNumberOfArguments(m, n) without evaluating the body and without
\* binding anything; with n = m every parameter is bound to the argument at
\* its position, the arguments evaluated left to right in the caller's
\* environment
RECURSIVE DifferenceOf(_)
DifferenceOf(m) ==
    IF m = 0 THEN 7
    ELSE IF m = 1 THEN ArgumentValue(1)
    ELSE DifferenceOf(m - 1) - ArgumentValue(m)
C27_CallArity ==
    pc = "done" =>
        /\ \A m \in 0..MaxParameters, n \in 0..MaxArguments, body \in ArityBodies :
               input = ArityCall(m, n, body) =>
                   IF m # n
                   THEN /\ evaluated = Err(WrongNumberOfArguments(m, n))
                        /\ DOMAIN environment.store = {"g"}
                        /\ environment.outer = <<>>
                   ELSE body = "difference" =>
                            evaluated = Ok(Integer(DifferenceOf(m)))
        /\ \A f \in ArgumentFixtures : input = f[1] => evaluated = f[2]

\* a function of two parameters whose body divides by zero was called with
\* three arguments
C27_ThreeArgumentsForTwo ==
    /\ pc = "done"
    /\ input = ArityCall(2, 3, "abort")
    /\ evaluated = Err(WrongNumberOfArguments(2, 3))
    /\ ~aborted

\* ---------------------------------------------------------------- C28

\* C28: evaluation stops at the first sub-evaluation that fails, in
\* statement order and left to right inside an expression; that error is the
\* result of eval, nothing later is evaluated, the earlier lets stay bound
\* and the later ones stay unbound
FirstFailure(left, right) ==
    IF left \in FailingOperands THEN <<left>>
    ELSE IF left = "1" /\ right \in FailingOperands THEN <<right>>
    ELSE <<>>
C28_FirstFailureWins ==
    pc = "done" =>
        \A shape \in OperandShapes, left \in Operands, right \in Operands :
            input = Surrounded(shape, left, right) =>
                /\ FirstFailure(left, right) # <<>> =>
                       /\ evaluated = Err(UnknownIdentifier(FirstFailure(left, right)[1]))
                       /\ ~aborted
                       /\ DOMAIN environment.store = {"a"}
                       /\ environment.store["a"] = Integer(1)
                /\ (shape = "infix" /\ left = "1" /\ right = "1") =>
                       /\ evaluated = Err(UnknownIdentifier("z"))
                       /\ DOMAIN environment.store = {"a", "b", "c"}
                       /\ environment.store["c"] = Integer(2)

\* the first argument of a call failed and the second would have aborted
C28_SecondArgumentNotEvaluated ==
    /\ pc = "done"
    /\ input = Surrounded("arguments", "x", "1 / 0")
    /\ evaluated = Err(UnknownIdentifier("x"))
    /\ ~aborted
    /\ EnvGet(environment, "a") = <<Integer(1)>>
    /\ EnvGet(environment, "b") = <<>>

\* ---------------------------------------------------------------- C29

\* C29: a let inside a function body binds its name in the environment of
\* that call only; after the call returns, with a value or with an error,
\* the caller's environment holds the names and values it held before the
\* call, also when the body binds a name of the caller
C29_LetWritesInnermostFrame ==
    pc = "done" =>
        \A v \in ValueFixtures, body \in LetBodies, after \in AfterCall :
            input = LetInBody(v[1], body[1], after) =>
                /\ environment.outer = <<>>
                /\ environment.store["x"] = v[2]
                /\ environment.store["f"].kind = "Function"
                /\ IF body[2].status = "Err"
                   THEN /\ evaluated = body[2]
                        /\ DOMAIN environment.store = {"x", "f"}
                   ELSE CASE after = "" ->
                                 /\ evaluated = body[2]
                                 /\ DOMAIN environment.store = {"x", "f"}
                          [] after = "; x" ->
                                 /\ evaluated = Ok(v[2])
                                 /\ DOMAIN environment.store = {"x", "f"}
                          [] OTHER ->
                                 /\ evaluated = Ok(v[2])
                                 /\ DOMAIN environment.store = {"x", "f", "y"}
                                 /\ environment.store["y"] = v[2]

\* the body bound x and y and returned; the caller then read its own x
C29_CallerReadsItsOwnBinding ==
    /\ pc = "done"
    /\ input = LetInBody("true", "let x = 2; let y = 3; x + y", "; x")
    /\ evaluated = Ok(Boolean(TRUE))
    /\ EnvGet(environment, "y") = <<>>

\* ---------------------------------------------------------------- C30

\* every loop head was reached with the lexer further on than at the one
\* before
Advancing(offsets) == \A i \in 1..(Len(offsets) - 1) : offsets[i] < offsets[i + 1]

\* C30: parse_program and the block loop advance by at least one token in
\* every iteration, the lexer reaches EOF, and the parser returns a Program
\* or an error list on every finite input
C30_ParserReturns == <>(pc = "done" /\ parsed.status \in {"Ok", "Err"} /\ Advancing(history))

\* the third token read of parse_program aborted on a literal out of range
C30_AbortedInParseProgram ==
    /\ pc = "aborted"
    /\ operation.operator = "parse_program"
    /\ input = "a; " \o ToString(IntMax + 1)
    /\ Advancing(history)

====
